---- MODULE Spec2Model ----
(***************************************************************************)
(* PGxNormalizer: the consensus normalizer (gene_call_normalizer.py), the  *)
(* allele knowledge base (pharmvar_manager.py) and the ALDY parser         *)
(* (aldy_parser.py), each as a state machine over its inputs and results.  *)
(*                                                                         *)
(* Python values are modelled as follows.  A str is a TLA+ string.  None   *)
(* is the reserved string None, which no modelled str equals.  A dict is a *)
(* function whose DOMAIN is its key set, so a missing key is a key outside *)
(* the DOMAIN.  A list is a sequence.  An object held in a list is named   *)
(* by its position in that list, so two equal dicts at different positions *)
(* stay different objects.  A raised exception is the name of its class in *)
(* a field exc, "" when nothing was raised.                                *)
(***************************************************************************)
EXTENDS Integers, Sequences, FiniteSets, TLC

VARIABLES
    gene_calls,     \* the caller's list of StandardizedGeneCall dicts
    norm,           \* what the last GeneCallNormalizer.normalize call did
    grouped,        \* what the last group_gene_calls_by_sample_gene call returned
    pharmvar_db,    \* PharmVarManager.pharmvar_db, the persisted file as loaded
    kb,             \* what the last get_normalized_allele call did
    pharmvar_file,  \* what is at PharmVarManager.processed_pharmvar_path
    manager,        \* the PharmVarManager object, or how its construction ended
    functionality,  \* what the last get_allele_functionality call did
    phenotype,      \* what the last get_standard_phenotype call did
    curated_maps,   \* the class attributes _allele_functionality_map and _phenotype_map
    gene_info,      \* what the last get_gene_info call returned
    aldy_file,      \* the file at the path handed to AldyParser.parse
    parsed          \* what the last AldyParser.parse call did

normVars == <<gene_calls, norm, grouped>>
kbVars ==
    <<pharmvar_db, kb, pharmvar_file, manager, functionality, phenotype,
      curated_maps, gene_info>>
parserVars == <<aldy_file, parsed>>
vars ==
    <<gene_calls, norm, grouped, pharmvar_db, kb, pharmvar_file, manager,
      functionality, phenotype, curated_maps, gene_info, aldy_file, parsed>>

-----------------------------------------------------------------------------
(* Python primitives *)

None == "<None>"

\* dict.get(key, default)
DictGet(d, key, default) == IF key \in DOMAIN d THEN d[key] ELSE default

\* d[key] = value on a dict
DictSet(d, key, value) ==
    [k \in DOMAIN d \cup {key} |-> IF k = key THEN value ELSE d[k]]

\* truth value of an Optional[str]
Truthy(v) == v # None /\ v # ""

\* sub in s, for two str
Contains(s, sub) ==
    \E i \in 1..(Len(s) - Len(sub) + 1) : SubSeq(s, i, i + Len(sub) - 1) = sub

\* s.startswith(prefix)
StartsWith(s, prefix) ==
    Len(s) >= Len(prefix) /\ SubSeq(s, 1, Len(prefix)) = prefix

Digits == {"0", "1", "2", "3", "4", "5", "6", "7", "8", "9"}

DigitValue(c) ==
    CASE c = "0" -> 0 [] c = "1" -> 1 [] c = "2" -> 2 [] c = "3" -> 3
      [] c = "4" -> 4 [] c = "5" -> 5 [] c = "6" -> 6 [] c = "7" -> 7
      [] c = "8" -> 8 [] c = "9" -> 9

\* str.isdigit()
IsDigit(s) == Len(s) > 0 /\ \A i \in 1..Len(s) : SubSeq(s, i, i) \in Digits

RECURSIVE DecimalValue(_)
DecimalValue(s) ==
    IF Len(s) = 0 THEN 0
    ELSE 10 * DecimalValue(SubSeq(s, 1, Len(s) - 1)) + DigitValue(SubSeq(s, Len(s), Len(s)))

\* str.replace(old, ''): every non-overlapping occurrence of old, left to
\* right, is removed; an empty old leaves the string as it is.
RECURSIVE Replace(_, _)
Replace(s, old) ==
    IF old = "" \/ Len(s) < Len(old) THEN s
    ELSE IF SubSeq(s, 1, Len(old)) = old
    THEN Replace(SubSeq(s, Len(old) + 1, Len(s)), old)
    ELSE SubSeq(s, 1, 1) \o Replace(SubSeq(s, 2, Len(s)), old)

Whitespace == {" ", "\t", "\n", "\r"}

RECURSIVE LStrip(_)
LStrip(s) ==
    IF Len(s) > 0 /\ SubSeq(s, 1, 1) \in Whitespace THEN LStrip(SubSeq(s, 2, Len(s))) ELSE s

RECURSIVE RStrip(_)
RStrip(s) ==
    IF Len(s) > 0 /\ SubSeq(s, Len(s), Len(s)) \in Whitespace
    THEN RStrip(SubSeq(s, 1, Len(s) - 1)) ELSE s

\* str.strip()
Strip(s) == LStrip(RStrip(s))

UpperLetters == "ABCDEFGHIJKLMNOPQRSTUVWXYZ"
LowerLetters == "abcdefghijklmnopqrstuvwxyz"

LowerChar(c) ==
    IF \E i \in 1..Len(UpperLetters) : SubSeq(UpperLetters, i, i) = c
    THEN LET i == CHOOSE i \in 1..Len(UpperLetters) : SubSeq(UpperLetters, i, i) = c
         IN  SubSeq(LowerLetters, i, i)
    ELSE c

\* str.lower()
RECURSIVE Lower(_)
Lower(s) ==
    IF Len(s) = 0 THEN s ELSE LowerChar(SubSeq(s, 1, 1)) \o Lower(SubSeq(s, 2, Len(s)))

\* A missing cell of a pandas frame read with dtype=str is the float NaN.
NaN == "<NaN>"

\* str(value)
PyStr(v) == IF v = NaN THEN "nan" ELSE IF v = None THEN "None" ELSE v

\* pd.notna(value)
NotNa(v) == v # NaN /\ v # None

\* s.split(sep) for a one-character sep, and re.split on a character class:
\* the fields between the separators, the k-th field lying between the
\* (k-1)-th and the k-th separator.
FieldsBetween(s, positions) ==
    LET NthPosition(k) ==
            IF k = 0 THEN 0
            ELSE IF k > Cardinality(positions) THEN Len(s) + 1
            ELSE CHOOSE p \in positions : Cardinality({q \in positions : q < p}) = k - 1
    IN  [k \in 1..(Cardinality(positions) + 1) |->
            SubSeq(s, NthPosition(k - 1) + 1, NthPosition(k) - 1)]

SplitAt(s, seps) == FieldsBetween(s, {i \in 1..Len(s) : SubSeq(s, i, i) \in seps})

Split(s, sep) == SplitAt(s, {sep})

\* sep.join(parts)
RECURSIVE Join(_, _)
Join(parts, sep) ==
    IF Len(parts) = 0 THEN ""
    ELSE IF Len(parts) = 1 THEN parts[1]
    ELSE parts[1] \o sep \o Join(Tail(parts), sep)

\* The characters of the modelled strings in code point order.
CodePointOrder ==
    "\t !#$%&()*+,-./0123456789:;<=>?@ABCDEFGHIJKLMNOPQRSTUVWXYZ[]^_abcdefghijklmnopqrstuvwxyz{|}~"

CodePointRank(c) == CHOOSE i \in 1..Len(CodePointOrder) : SubSeq(CodePointOrder, i, i) = c

\* a < b for two str: by code point, a proper prefix first.
RECURSIVE StrLess(_, _)
StrLess(a, b) ==
    IF Len(b) = 0 THEN FALSE
    ELSE IF Len(a) = 0 THEN TRUE
    ELSE IF SubSeq(a, 1, 1) = SubSeq(b, 1, 1)
    THEN StrLess(SubSeq(a, 2, Len(a)), SubSeq(b, 2, Len(b)))
    ELSE CodePointRank(SubSeq(a, 1, 1)) < CodePointRank(SubSeq(b, 1, 1))

\* The length of the longest prefix of s from position i made of digits.
RECURSIVE DigitRun(_, _)
DigitRun(s, i) ==
    IF i <= Len(s) /\ SubSeq(s, i, i) \in Digits THEN 1 + DigitRun(s, i + 1) ELSE 0

\* os.path.basename(path)
Basename(path) == LET parts == Split(path, "/") IN parts[Len(parts)]

-----------------------------------------------------------------------------
(* gene_call_normalizer.py *)

\* The names bound at module level of gene_call_normalizer.py (its imports and
\* its two definitions).  A name used in the module and bound neither here nor
\* as a builtin raises NameError when it is evaluated.
NormalizerModuleNames ==
    {"List", "Dict", "Any", "Optional", "defaultdict", "json",
     "StandardizedGeneCall", "group_gene_calls_by_sample_gene", "GeneCallNormalizer"}

\* grouped_data[sample_id][gene].append(call) on the nested defaultdict; the
\* appended object is named by its position ref in the input list.
GroupAppend(grouped_data, sample_id, gene, ref) ==
    LET inner == DictGet(grouped_data, sample_id, <<>>)
        calls == DictGet(inner, gene, <<>>)
    IN  DictSet(grouped_data, sample_id, DictSet(inner, gene, Append(calls, ref)))

\* Mutant of GroupKeeps: the test looks at gene alone.
GroupKeeps_GeneOnly(call) == Truthy(DictGet(call, "gene", None))

\* The condition under which the loop of group_gene_calls_by_sample_gene keeps a call.
GroupKeeps(call) ==
    LET sample_id == DictGet(call, "sample_id", None)
        gene == DictGet(call, "gene", None)
    IN  Truthy(sample_id) /\ Truthy(gene)

RECURSIVE GroupLoop(_, _, _)
GroupLoop(calls, i, grouped_data) ==
    IF i > Len(calls) THEN grouped_data
    ELSE LET call == calls[i]
         IN  IF GroupKeeps(call)
             THEN GroupLoop(calls, i + 1,
                            GroupAppend(grouped_data, DictGet(call, "sample_id", None),
                                        DictGet(call, "gene", None), i))
             ELSE GroupLoop(calls, i + 1, grouped_data)

group_gene_calls_by_sample_gene(calls) == GroupLoop(calls, 1, <<>>)

\* Mutant of Inconsistent: the loop compares sample_id alone.
Inconsistent_SampleOnly(calls) ==
    \E i \in 1..Len(calls) :
        DictGet(calls[i], "sample_id", None) # DictGet(calls[1], "sample_id", None)

\* The consistency loop of normalize: some call differs from the first one in
\* sample_id or gene.
Inconsistent(calls) ==
    LET first_call == calls[1]
        sample_id == DictGet(first_call, "sample_id", None)
        gene == DictGet(first_call, "gene", None)
    IN  \E i \in 1..Len(calls) :
            \/ DictGet(calls[i], "sample_id", None) # sample_id
            \/ DictGet(calls[i], "gene", None) # gene

\* The scan of one call's variants_reported from position i: "True" at the
\* first flag string containing NORMAL, "False" at the end of the list, and
\* "TypeError" when a tool_specific_flags of None is met first ('NORMAL' in None).
RECURSIVE ScanVariants(_, _)
ScanVariants(variants, i) ==
    IF i > Len(variants) THEN "False"
    ELSE LET flags == DictGet(variants[i], "tool_specific_flags", "")
         IN  IF flags = None THEN "TypeError"
             ELSE IF Contains(flags, "NORMAL") THEN "True"
             ELSE ScanVariants(variants, i + 1)

HasNormalStatus(call) ==
    ScanVariants(DictGet(DictGet(call, "raw_tool_output", <<>>), "variants_reported", <<>>), 1)

\* Mutant of PartitionOf: the tool_name test is dropped.
PartitionOf_AnyTool(call) ==
    LET h == HasNormalStatus(call)
    IN  IF h = "True" THEN "normal" ELSE IF h = "False" THEN "other" ELSE h

\* Where the partition loop puts one call: "normal", "other" or "TypeError".
PartitionOf(call) ==
    IF DictGet(call, "tool_name", None) = "ALDY"
    THEN LET h == HasNormalStatus(call)
         IN  IF h = "True" THEN "normal" ELSE IF h = "False" THEN "other" ELSE h
    ELSE "other"

\* The partition loop from position i; the lists hold positions of gene_calls.
RECURSIVE PartitionLoop(_, _, _, _)
PartitionLoop(calls, i, normal_solutions, other_solutions) ==
    IF i > Len(calls)
    THEN [exc |-> "", normal_solutions |-> normal_solutions,
          other_solutions |-> other_solutions]
    ELSE LET p == PartitionOf(calls[i])
         IN  IF p = "normal"
             THEN PartitionLoop(calls, i + 1, Append(normal_solutions, i), other_solutions)
             ELSE IF p = "other"
             THEN PartitionLoop(calls, i + 1, normal_solutions, Append(other_solutions, i))
             ELSE [exc |-> p, normal_solutions |-> normal_solutions,
                   other_solutions |-> other_solutions]

\* The sort key lambda: int(x.get('raw_tool_output', {}).get('aldy_solution_id',
\* sys.maxsize)).  The default argument sys.maxsize is evaluated at every call of
\* the lambda.  maxsize marks the key sys.maxsize, larger than every modelled id.
SolutionIdKey(call) ==
    IF "sys" \notin NormalizerModuleNames
    THEN [exc |-> "NameError", maxsize |-> FALSE, n |-> 0]
    ELSE LET raw == DictGet(call, "raw_tool_output", <<>>)
         IN  IF "aldy_solution_id" \notin DOMAIN raw
             THEN [exc |-> "", maxsize |-> TRUE, n |-> 0]
             ELSE IF raw["aldy_solution_id"] = None
             THEN [exc |-> "TypeError", maxsize |-> FALSE, n |-> 0]
             ELSE IF IsDigit(raw["aldy_solution_id"])
             THEN [exc |-> "", maxsize |-> FALSE, n |-> DecimalValue(raw["aldy_solution_id"])]
             ELSE [exc |-> "ValueError", maxsize |-> FALSE, n |-> 0]

KeyLessOrEqual(a, b) == b.maxsize \/ (~a.maxsize /\ a.n <= b.n)

\* list.sort(key=...) when no key raises: stable, ascending.
RECURSIVE StableSort(_, _)
StableSort(calls, refs) ==
    IF refs = <<>> THEN <<>>
    ELSE LET rest == StableSort(calls, SubSeq(refs, 1, Len(refs) - 1))
             x == refs[Len(refs)]
             pos == Cardinality({j \in 1..Len(rest) :
                        KeyLessOrEqual(SolutionIdKey(calls[rest[j]]), SolutionIdKey(calls[x]))})
         IN  SubSeq(rest, 1, pos) \o <<x>> \o SubSeq(rest, pos + 1, Len(rest))

\* list.sort(key=...): the keys are computed first, in list order; the first key
\* that raises aborts the sort and leaves the list as it was.
SortBySolutionId(calls, refs) ==
    LET raising == {j \in 1..Len(refs) : SolutionIdKey(calls[refs[j]]).exc # ""}
    IN  IF raising # {}
        THEN [exc |-> SolutionIdKey(calls[refs[CHOOSE j \in raising : \A k \in raising : j <= k]]).exc,
              order |-> refs]
        ELSE [exc |-> "", order |-> StableSort(calls, refs)]

\* The enrichment of best_solution, in place.
Enrich(call) ==
    DictSet(DictSet(call, "normalized_functional_status", "Normal Function (Inferred)"),
            "predicted_phenotype", "Normal Metabolizer (Inferred)")

\* GeneCallNormalizer.normalize as a function of the input list.  kind is
\* "None" (returned None), "call" (returned the object at position best of the
\* input list) or "raise" (exc propagated to the caller); normal_solutions and
\* other_solutions are the two local lists when the call ended; calls is the
\* caller's list after the call.
NormOutcome(kind, exc, best, normal_solutions, other_solutions, calls) ==
    [called |-> TRUE, kind |-> kind, exc |-> exc, best |-> best,
     normal_solutions |-> normal_solutions, other_solutions |-> other_solutions,
     calls |-> calls]

\* The two selection branches: sort the chosen local list in place, take its
\* first element, enrich it.
SelectFrom(calls, p, from_normal) ==
    LET s == SortBySolutionId(calls, IF from_normal THEN p.normal_solutions
                                     ELSE p.other_solutions)
        normal == IF from_normal THEN s.order ELSE p.normal_solutions
        other == IF from_normal THEN p.other_solutions ELSE s.order
    IN  IF s.exc # ""
        THEN NormOutcome("raise", s.exc, 0, normal, other, calls)
        ELSE NormOutcome("call", "", s.order[1], normal, other,
                         [calls EXCEPT ![s.order[1]] = Enrich(calls[s.order[1]])])

normalize(calls) ==
    IF calls = <<>> THEN NormOutcome("None", "", 0, <<>>, <<>>, calls)
    ELSE IF Inconsistent(calls) THEN NormOutcome("None", "", 0, <<>>, <<>>, calls)
    ELSE LET p == PartitionLoop(calls, 1, <<>>, <<>>)
         IN  IF p.exc # ""
             THEN NormOutcome("raise", p.exc, 0, p.normal_solutions, p.other_solutions, calls)
             ELSE IF p.normal_solutions # <<>> THEN SelectFrom(calls, p, TRUE)
             ELSE IF p.other_solutions # <<>> THEN SelectFrom(calls, p, FALSE)
             ELSE NormOutcome("None", "", 0, <<>>, <<>>, calls)

-----------------------------------------------------------------------------
(* load_pharmvar.py *)

\* A canonical form without the '*' prefix.
StarForm_Bare(gene_name, name) == Strip(Replace(Replace(name, gene_name), "*"))

\* The canonical star form both the loader and the manager compute:
\* name.replace(gene_name, '').replace('*', '').strip(), then '*' prefixed
\* unless the result starts with '*'.
StarForm(gene_name, name) ==
    LET normalized_form == Strip(Replace(Replace(name, gene_name), "*"))
    IN  IF StartsWith(normalized_form, "*") THEN normalized_form
        ELSE "*" \o normalized_form

\* One iteration of the loop of load_and_process_gene_pharmvar over a row of
\* the haplotypes frame (columns Haplotype Name, rsID, Variant Start).
LoadRow(gene_name, definitions, row) ==
    LET allele_name_raw == Strip(PyStr(row.name))
        normalized_allele == StarForm(gene_name, allele_name_raw)
        rsid == Strip(PyStr(row.rsID))
        variant_start == Strip(PyStr(row.start))
        is_primary_definition ==
            Lower(rsid) = "reference" \/ (rsid = "" /\ variant_start = "")
        fresh == [raw_pharmvar_name |-> allele_name_raw, variant_details |-> <<>>]
        d1 == IF normalized_allele \notin DOMAIN definitions \/ is_primary_definition
              THEN DictSet(definitions, normalized_allele,
                           IF is_primary_definition
                           THEN DictSet(fresh, "is_primary_definition", TRUE)
                           ELSE fresh)
              ELSE definitions
        variant_info == [rsID |-> rsid, variant_start |-> variant_start]
        d2 == IF rsid # "" \/ variant_start # ""
              THEN DictSet(d1, normalized_allele,
                           DictSet(d1[normalized_allele], "variant_details",
                                   Append(DictGet(d1[normalized_allele], "variant_details", <<>>),
                                          variant_info)))
              ELSE d1
        d3 == IF allele_name_raw \notin DOMAIN d2
              THEN DictSet(d2, allele_name_raw, [maps_to |-> normalized_allele])
              ELSE d2
        prefixed == gene_name \o normalized_allele
        d4 == IF prefixed \notin DOMAIN d3
              THEN DictSet(d3, prefixed, [maps_to |-> normalized_allele])
              ELSE d3
    IN  IF allele_name_raw = "" THEN definitions ELSE d4

RECURSIVE LoadRows(_, _, _, _)
LoadRows(gene_name, rows, i, definitions) ==
    IF i > Len(rows) THEN definitions
    ELSE LoadRows(gene_name, rows, i + 1, LoadRow(gene_name, definitions, rows[i]))

\* load_and_process_gene_pharmvar on a frame that was read: the gene's entry
\* of the persisted file.
load_and_process_gene_pharmvar(gene_name, rows) ==
    [definitions |-> LoadRows(gene_name, rows, 1, <<>>)]

-----------------------------------------------------------------------------
(* pharmvar_manager.py *)

\* PharmVarManager._allele_functionality_map
AlleleFunctionalityMap ==
    [CYP2D6 |-> ("*1" :> "Normal Function" @@ "*2" :> "Normal Function"
                 @@ "*10" :> "Decreased Function" @@ "*4" :> "No Function"
                 @@ "*5" :> "No Function" @@ "*6" :> "No Function"
                 @@ "*xN" :> "Increased Function" @@ "UNKNOWN" :> "Unknown"),
     CYP2C9 |-> ("*1" :> "Normal Function" @@ "*2" :> "Decreased Function"
                 @@ "*3" :> "No Function" @@ "UNKNOWN" :> "Unknown"),
     CYP2C19 |-> ("*1" :> "Normal Function" @@ "*2" :> "No Function"
                  @@ "*3" :> "No Function" @@ "*17" :> "Increased Function"
                  @@ "UNKNOWN" :> "Unknown"),
     CYP2B6 |-> ("*1" :> "Normal Function" @@ "*6" :> "Decreased Function"
                 @@ "*18" :> "No Function" @@ "UNKNOWN" :> "Unknown"),
     CYP3A5 |-> ("*1" :> "Normal Function" @@ "*3" :> "No Function"
                 @@ "UNKNOWN" :> "Unknown"),
     TPMT |-> ("*1" :> "Normal Function" @@ "*2" :> "Decreased Function"
               @@ "*3A" :> "No Function" @@ "*3B" :> "No Function"
               @@ "*3C" :> "No Function" @@ "UNKNOWN" :> "Unknown"),
     DPYD |-> ("*1" :> "Normal Function" @@ "*2A" :> "No Function"
               @@ "UNKNOWN" :> "Unknown"),
     UGT1A1 |-> ("*1" :> "Normal Function" @@ "*6" :> "Decreased Function"
                 @@ "*28" :> "Decreased Function" @@ "UNKNOWN" :> "Unknown"),
     SLCO1B1 |-> ("*1A" :> "Normal Function" @@ "*5" :> "Decreased Function"
                  @@ "*15" :> "Decreased Function" @@ "UNKNOWN" :> "Unknown"),
     CYP3A4 |-> ("*1" :> "Normal Function" @@ "*22" :> "Decreased Function"
                 @@ "UNKNOWN" :> "Unknown"),
     VKORC1 |-> ("*1" :> "Normal Function" @@ "rs9923231" :> "Decreased Function"
                 @@ "UNKNOWN" :> "Unknown"),
     F5 |-> ("*1" :> "Normal Function" @@ "rs6025" :> "Increased Function"
             @@ "UNKNOWN" :> "Unknown"),
     CYP1A2 |-> ("*1" :> "Normal Function" @@ "*1F" :> "Increased Function"
                 @@ "*1C" :> "Decreased Function" @@ "UNKNOWN" :> "Unknown")]

\* What a get_normalized_allele call did: the value returned, the tier that
\* produced it (0: no tier) and the tables it looked into, in order.
Normalized(value, tier, lookups) == [value |-> value, tier |-> tier, lookups |-> lookups]

\* "if not gene_data": a missing gene and an empty dict are both false.
GeneDataMissing(genes, gene_name) ==
    gene_name \notin DOMAIN genes \/ DOMAIN genes[gene_name] = {}

\* Tier 3: raw_allele is a key of the gene's functionality map.
InFunctionalityMap(gene_name, raw_allele) ==
    /\ gene_name \in DOMAIN AlleleFunctionalityMap
    /\ raw_allele \in DOMAIN AlleleFunctionalityMap[gene_name]

\* Mutant of Resolve: an alias entry is not followed to its target.
Resolve_NoAlias(definitions, key, normalized_form) == normalized_form

\* A primary definition answered with the name PharmVar gives it.
Resolve_RawName(definitions, key, normalized_form) ==
    IF "maps_to" \in DOMAIN definitions[key] THEN definitions[key]["maps_to"]
    ELSE DictGet(definitions[key], "raw_pharmvar_name", normalized_form)

\* The value tiers 1 and 2 return for the entry found under key.
Resolve(definitions, key, normalized_form) ==
    IF "maps_to" \in DOMAIN definitions[key] THEN definitions[key]["maps_to"]
    ELSE normalized_form

\* Mutant of InvalidInput: the allele is not tested.
InvalidInput_GeneOnly(gene_name, raw_allele) == ~Truthy(gene_name)

\* "if not gene_name or not raw_allele"
InvalidInput(gene_name, raw_allele) == ~Truthy(gene_name) \/ ~Truthy(raw_allele)

\* PharmVarManager.get_normalized_allele
get_normalized_allele(db, gene_name, raw_allele) ==
    IF InvalidInput(gene_name, raw_allele) THEN Normalized("UNKNOWN", 0, <<>>)
    ELSE LET genes == DictGet(db, "genes", <<>>)
         IN  IF GeneDataMissing(genes, gene_name)
             THEN Normalized("UNKNOWN", 0, <<"genes">>)
             ELSE LET definitions == DictGet(genes[gene_name], "definitions", <<>>)
                      normalized_form == StarForm(gene_name, raw_allele)
                  IN  IF raw_allele \in DOMAIN definitions
                      THEN Normalized(Resolve(definitions, raw_allele, normalized_form), 1,
                                      <<"genes", "definitions">>)
                      ELSE IF normalized_form \in DOMAIN definitions
                      THEN Normalized(Resolve(definitions, normalized_form, normalized_form),
                                      2, <<"genes", "definitions", "definitions">>)
                      ELSE IF InFunctionalityMap(gene_name, raw_allele)
                      THEN Normalized(raw_allele, 3,
                                      <<"genes", "definitions", "definitions", "functionality">>)
                      ELSE Normalized("UNKNOWN", 0,
                                      <<"genes", "definitions", "definitions", "functionality">>)

\* PharmVarManager._phenotype_map
PhenotypeMap ==
    ("Normal Function" :> "NM" @@ "Increased Function" :> "UM"
     @@ "Decreased Function" :> "IM" @@ "No Function" :> "PM"
     @@ "Unknown" :> "Unknown" @@ "Uncertain Function" :> "Indeterminate"
     @@ "Normal" :> "Normal" @@ "Reduced" :> "Reduced"
     @@ "Increased" :> "Increased" @@ "Non-functional" :> "Non-functional")

\* A lookup that hands back an input the table does not have.
get_standard_phenotype_Passthrough(functionality_in) ==
    DictGet(PhenotypeMap, functionality_in, functionality_in)

\* PharmVarManager.get_standard_phenotype
get_standard_phenotype(functionality_in) == DictGet(PhenotypeMap, functionality_in, "Unknown")

\* The duplication test of get_allele_functionality: the outer condition
\* looks for a lower-case 'x' in the allele as given, the inner one for an
\* 'x' in its lower-cased form.
DuplicationMarked(gene_name, normalized_allele) ==
    /\ gene_name = "CYP2D6" /\ Contains(normalized_allele, "x")
    /\ Contains(Lower(normalized_allele), "x")

\* PharmVarManager.get_allele_functionality
get_allele_functionality(gene_name, normalized_allele) ==
    IF gene_name \notin DOMAIN AlleleFunctionalityMap THEN "Unknown"
    ELSE IF Truthy(DictGet(AlleleFunctionalityMap[gene_name], normalized_allele, None))
    THEN AlleleFunctionalityMap[gene_name][normalized_allele]
    ELSE IF DuplicationMarked(gene_name, normalized_allele)
    THEN DictGet(AlleleFunctionalityMap[gene_name], "*xN", "Unknown")
    ELSE DictGet(AlleleFunctionalityMap[gene_name], "UNKNOWN", "Unknown")

\* Mutant of AfterGet: a lookup that stores the default under a missing key,
\* as dict.setdefault and defaultdict do.
AfterGet_SetDefault(d, key, default) ==
    IF key \in DOMAIN d THEN d ELSE DictSet(d, key, default)

\* The dict d after d.get(key, default): the default is returned, not stored.
AfterGet(d, key, default) == d

\* self.pharmvar_db after self.pharmvar_db.get("genes", {}).get(gene_name):
\* the outer default is a fresh dict, the inner one is None.
AfterGeneLookup(db, gene_name) ==
    IF "genes" \in DOMAIN AfterGet(db, "genes", <<>>)
    THEN [AfterGet(db, "genes", <<>>) EXCEPT !["genes"] = AfterGet(@, gene_name, None)]
    ELSE db

\* PharmVarManager.get_gene_info: the gene's entry of the database, or None.
get_gene_info(db, gene_name) ==
    LET genes == DictGet(db, "genes", <<>>)
    IN  [found |-> gene_name \in DOMAIN genes,
         value |-> IF gene_name \in DOMAIN genes THEN genes[gene_name] ELSE <<>>]

\* self.pharmvar_db after get_normalized_allele: the lookup of the gene and,
\* when it gives a non-empty dict, gene_data.get("definitions", {}); the
\* tiers read definitions with "in" and subscripts only.
DbAfterNormalizedAllele(db, gene_name, raw_allele) ==
    IF InvalidInput(gene_name, raw_allele) THEN db
    ELSE LET after == AfterGeneLookup(db, gene_name)
         IN  IF GeneDataMissing(DictGet(db, "genes", <<>>), gene_name) THEN after
             ELSE [after EXCEPT !["genes"][gene_name] = AfterGet(@, "definitions", <<>>)]

\* The two class-level dicts after get_allele_functionality: the direct
\* lookup and, when it gives nothing, the lookup of "*xN" or of "UNKNOWN".
MapsAfterFunctionality(maps, gene_name, normalized_allele) ==
    IF gene_name \notin DOMAIN maps.allele_functionality_map THEN maps
    ELSE LET inner == maps.allele_functionality_map[gene_name]
             direct == AfterGet(inner, normalized_allele, None)
         IN  [maps EXCEPT !.allele_functionality_map[gene_name] =
                 IF Truthy(DictGet(inner, normalized_allele, None)) THEN direct
                 ELSE IF DuplicationMarked(gene_name, normalized_allele)
                 THEN AfterGet(direct, "*xN", "Unknown")
                 ELSE AfterGet(direct, "UNKNOWN", "Unknown")]

\* The two class-level dicts after get_standard_phenotype.
MapsAfterPhenotype(maps, functionality_in) ==
    [maps EXCEPT !.phenotype_map = AfterGet(@, functionality_in, "Unknown")]

\* What open() and json.load make of the persisted file: a file that does
\* not exist, one that cannot be read, one whose text is not JSON, and one
\* whose text is the JSON of value (a JSON object when is_object, else a
\* JSON array).
PersistedFile(exists, readable, is_json, is_object, value) ==
    [exists |-> exists, readable |-> readable, is_json |-> is_json,
     is_object |-> is_object, value |-> value]

\* A load that takes a missing file for an empty database.
load_pharmvar_db_MissingIsEmpty(file) ==
    IF ~file.exists THEN [exc |-> "", value |-> [genes |-> <<>>]]
    ELSE IF ~file.readable THEN [exc |-> "RuntimeError", value |-> <<>>]
    ELSE IF ~file.is_json THEN [exc |-> "ValueError", value |-> <<>>]
    ELSE [exc |-> "", value |-> file.value]

\* PharmVarManager._load_pharmvar_db
load_pharmvar_db(file) ==
    IF ~file.exists THEN [exc |-> "FileNotFoundError", value |-> <<>>]
    ELSE IF ~file.readable THEN [exc |-> "RuntimeError", value |-> <<>>]
    ELSE IF ~file.is_json THEN [exc |-> "ValueError", value |-> <<>>]
    ELSE [exc |-> "", value |-> file.value]

\* The manager after __init__, or the exception __init__ raises: the one of
\* the load, or AttributeError when the loaded value has no get method.
ManagerOf(file, loaded) ==
    IF loaded.exc # ""
    THEN [attempted |-> TRUE, constructed |-> FALSE, exc |-> loaded.exc,
          pharmvar_db |-> <<>>, supported_genes |-> {}]
    ELSE IF ~file.is_object
    THEN [attempted |-> TRUE, constructed |-> FALSE, exc |-> "AttributeError",
          pharmvar_db |-> <<>>, supported_genes |-> {}]
    ELSE [attempted |-> TRUE, constructed |-> TRUE, exc |-> "",
          pharmvar_db |-> loaded.value,
          supported_genes |-> DOMAIN DictGet(loaded.value, "genes", <<>>)]

\* PharmVarManager.__init__; supported_genes is kept as the set of its members.
PharmVarManagerInit(file) == ManagerOf(file, load_pharmvar_db(file))

-----------------------------------------------------------------------------
(* aldy_parser.py: the scan of the file *)

\* re.match(r'#Solution (\d+): (.*)', line) on a line that starts with
\* '#Solution ': the two groups, or matched FALSE.
SolutionMatch(line) ==
    LET start == Len("#Solution ") + 1
        n == DigitRun(line, start)
        after == start + n
    IN  IF n > 0 /\ SubSeq(line, after, after + 1) = ": "
        THEN [matched |-> TRUE, id |-> SubSeq(line, start, after - 1),
              text |-> SubSeq(line, after + 2, Len(line))]
        ELSE [matched |-> FALSE, id |-> "", text |-> ""]

\* [col.strip() for col in line[1:].split('\t')]
HeaderColumns(line) ==
    LET cols == Split(SubSeq(line, 2, Len(line)), "\t")
    IN  [i \in 1..Len(cols) |-> Strip(cols[i])]

\* Mutant of ScanStart: column_names starts as the expected columns, so that
\* rows are accepted without a header line.
ScanStart_ExpectedColumns ==
    [column_names |-> <<"Sample", "Gene", "SolutionID", "Major", "Minor",
                        "AlleleCopyIdentifier", "Allele", "Location", "VariantType",
                        "Coverage", "VariantFunctionalityRaw", "dbSNP",
                        "KarolinskaCode", "VariantStatus">>,
     data_lines |-> <<>>, solution_descriptions |-> <<>>,
     current_id |-> None, current_text |-> None]

\* The locals of parse while it reads the file.
ScanStart ==
    [column_names |-> <<>>, data_lines |-> <<>>, solution_descriptions |-> <<>>,
     current_id |-> None, current_text |-> None]

\* A data line met while a '#Solution' line waits for its row: the description
\* is stored under the row's third field when that field equals the ordinal
\* of the '#Solution' line.
AssociateParts(st, parts) ==
    IF Truthy(st.current_id) /\ Truthy(st.current_text)
       /\ Len(parts) > 2 /\ parts[3] = st.current_id
    THEN [st EXCEPT !.solution_descriptions = DictSet(@, parts[3], st.current_text),
                    !.current_id = None, !.current_text = None]
    ELSE st

Associate(st, line) == AssociateParts(st, Split(line, "\t"))

\* Mutant of ScanStripped: a data line is collected whether or not the header
\* has been read.
ScanStripped_AcceptsEarlyRows(st, line) ==
    IF line = "" THEN st
    ELSE IF StartsWith(line, "#Sample")
    THEN [st EXCEPT !.column_names = HeaderColumns(line)]
    ELSE IF StartsWith(line, "#Solution ")
    THEN LET m == SolutionMatch(line)
         IN  IF m.matched
             THEN [st EXCEPT !.current_id = m.id, !.current_text = m.text]
             ELSE st
    ELSE Associate([st EXCEPT !.data_lines = Append(@, line)], line)

\* One iteration of the loop over the lines of the file.
ScanStripped(st, line) ==
    IF line = "" THEN st
    ELSE IF StartsWith(line, "#Sample")
    THEN [st EXCEPT !.column_names = HeaderColumns(line)]
    ELSE IF StartsWith(line, "#Solution ")
    THEN LET m == SolutionMatch(line)
         IN  IF m.matched
             THEN [st EXCEPT !.current_id = m.id, !.current_text = m.text]
             ELSE st
    ELSE IF st.column_names # <<>>
    THEN Associate([st EXCEPT !.data_lines = Append(@, line)], line)
    ELSE st

ScanLine(st, raw_line) == ScanStripped(st, Strip(raw_line))

RECURSIVE ScanLines(_, _, _)
ScanLines(lines, i, st) ==
    IF i > Len(lines) THEN st ELSE ScanLines(lines, i + 1, ScanLine(st, lines[i]))

-----------------------------------------------------------------------------
(* aldy_parser.py: the frame read from the data lines *)

\* The strings pandas.read_csv reads as a missing value by default.
NaValues ==
    {"", "#N/A", "#N/A N/A", "#NA", "-1.#IND", "-1.#QNAN", "-NaN", "-nan",
     "1.#IND", "1.#QNAN", "<NA>", "N/A", "NA", "NULL", "NaN", "None", "n/a",
     "nan", "null"}

ReadCell(field) == IF field \in NaValues THEN NaN ELSE field

HasColumn(column_names, col) == \E i \in 1..Len(column_names) : column_names[i] = col

ColumnIndex(column_names, col) ==
    CHOOSE i \in 1..Len(column_names) :
        /\ column_names[i] = col
        /\ \A j \in 1..(i - 1) : column_names[j] # col

\* pd.read_csv(..., sep='\t', names=column_names, dtype=str) on one line: a
\* line with fewer fields than names is filled with NaN on the right.  The
\* lines of the files modelled have at most as many fields as there are names.
ReadFields(column_names, fields) ==
    [i \in 1..Len(column_names) |->
        IF i <= Len(fields) THEN ReadCell(fields[i]) ELSE NaN]

ReadLine(column_names, line) == ReadFields(column_names, Split(line, "\t"))

\* row.get(col, default): the cell, NaN included, or the default when the
\* frame has no such column.
RowGet(column_names, row, col, default) ==
    IF col = "SolutionDescription" THEN row.SolutionDescription
    ELSE IF HasColumn(column_names, col)
    THEN row.cells[ColumnIndex(column_names, col)]
    ELSE default

\* df['SolutionID'].map(solution_descriptions) on one cell, then the
\* chained df['SolutionDescription'].fillna(..., inplace=True): it fills
\* the column of df when pandas hands out the column itself, and leaves df
\* as it is when pandas hands out a copy (copy-on-write).
DescriptionOf(solution_descriptions, solution_id, fillna_reaches_df) ==
    IF solution_id # NaN /\ solution_id \in DOMAIN solution_descriptions
    THEN solution_descriptions[solution_id]
    ELSE IF fillna_reaches_df THEN "No Description Found" ELSE NaN

\* The frame df after the SolutionDescription column is added, or the
\* exception raised on the way.
FrameRow(st, cells, fillna_reaches_df) ==
    [cells |-> cells,
     SolutionDescription |->
         DescriptionOf(st.solution_descriptions,
                       cells[ColumnIndex(st.column_names, "SolutionID")],
                       fillna_reaches_df)]

ReadFrame(st, fillna_reaches_df) ==
    IF \E i, j \in 1..Len(st.column_names) : i # j /\ st.column_names[i] = st.column_names[j]
    THEN [exc |-> "ValueError", rows |-> <<>>]
    ELSE IF ~HasColumn(st.column_names, "SolutionID")
    THEN [exc |-> "KeyError", rows |-> <<>>]
    ELSE [exc |-> "",
          rows |-> [i \in 1..Len(st.data_lines) |->
              FrameRow(st, ReadLine(st.column_names, st.data_lines[i]),
                       fillna_reaches_df)]]

\* The key of a row under df.groupby(['Sample', 'Gene', 'SolutionID']).
GroupKeyOf(column_names, row) ==
    <<RowGet(column_names, row, "Sample", NaN),
      RowGet(column_names, row, "Gene", NaN),
      RowGet(column_names, row, "SolutionID", NaN)>>

\* Mutant of HasGroupKey: groupby with dropna=False keeps every row.
HasGroupKey_KeepsMissing(column_names, row) == TRUE

\* groupby leaves out the rows with a missing value in a key column.
HasGroupKey(column_names, row) ==
    \A k \in 1..3 : GroupKeyOf(column_names, row)[k] # NaN

\* The order of two keys under groupby's sort: column by column.
KeyBefore(a, b) ==
    \/ StrLess(a[1], b[1])
    \/ a[1] = b[1] /\ StrLess(a[2], b[2])
    \/ a[1] = b[1] /\ a[2] = b[2] /\ StrLess(a[3], b[3])

RECURSIVE SortedKeys(_)
SortedKeys(keys) ==
    IF keys = {} THEN <<>>
    ELSE LET first == CHOOSE k \in keys : \A other \in keys \ {k} : KeyBefore(k, other)
         IN  <<first>> \o SortedKeys(keys \ {first})

\* Mutant of GroupsOf: the rows of each group in the reverse of file order.
GroupsOf_Reversed(column_names, rows, keys) ==
    [g \in 1..Len(keys) |->
        [key |-> keys[g],
         group_df |->
            LET in_order == SelectSeq(rows, LAMBDA r :
                    HasGroupKey(column_names, r) /\ GroupKeyOf(column_names, r) = keys[g])
            IN  [i \in 1..Len(in_order) |-> in_order[Len(in_order) + 1 - i]]]]

\* The groups in the order the loop meets them: each a key and its rows in
\* the order of the file.
GroupsOf(column_names, rows, keys) ==
    [g \in 1..Len(keys) |->
        [key |-> keys[g],
         group_df |-> SelectSeq(rows, LAMBDA r :
             HasGroupKey(column_names, r) /\ GroupKeyOf(column_names, r) = keys[g])]]

\* Grouping by sample and gene alone: the rows of all the solutions of a
\* sample and gene in one group, under the key of the first of them.
GroupedSolutions_BySampleGene(column_names, rows) ==
    LET keyed == {i \in 1..Len(rows) : HasGroupKey(column_names, rows[i])}
        SamePair(a, b) == a[1] = b[1] /\ a[2] = b[2]
        keys == SortedKeys({GroupKeyOf(column_names, rows[i]) : i \in
                    {j \in keyed : \A k \in keyed :
                        k < j => ~SamePair(GroupKeyOf(column_names, rows[k]),
                                           GroupKeyOf(column_names, rows[j]))}})
    IN  [g \in 1..Len(keys) |->
            [key |-> keys[g],
             group_df |-> SelectSeq(rows, LAMBDA r :
                 HasGroupKey(column_names, r)
                 /\ SamePair(GroupKeyOf(column_names, r), keys[g]))]]

GroupedSolutions(column_names, rows) ==
    GroupsOf(column_names, rows,
             SortedKeys({GroupKeyOf(column_names, rows[i]) :
                         i \in {j \in 1..Len(rows) : HasGroupKey(column_names, rows[j])}}))

-----------------------------------------------------------------------------
(* aldy_parser.py: one call per group *)

\* int(location) inside range gives "GRCh37"; a location that int() rejects
\* gives "UNKNOWN".  A digit string of more than nine digits is out of range.
infer_reference_genome_from_location(location) ==
    IF IsDigit(location) /\ Len(location) <= 9
       /\ 1000000 <= DecimalValue(location) /\ DecimalValue(location) <= 250000000
    THEN "GRCh37"
    ELSE "UNKNOWN"

\* The number of non-blank pieces of the diplotype between '/' and '+', or
\* None (is_none) for an empty diplotype.  A NaN is truthy and has no replace
\* method.
infer_copy_number_from_diplotype(diplotype_string) ==
    IF diplotype_string = NaN THEN [exc |-> "AttributeError", is_none |-> TRUE, value |-> 0]
    ELSE IF ~Truthy(diplotype_string) THEN [exc |-> "", is_none |-> TRUE, value |-> 0]
    ELSE LET cleaned_diplotype ==
                 Replace(Replace(Replace(diplotype_string, "CYP2D6"), "CYP2C9"), "CYP2C19")
             pieces == SplitAt(cleaned_diplotype, {"/", "+"})
         IN  [exc |-> "", is_none |-> FALSE,
              value |-> Cardinality({i \in 1..Len(pieces) : Strip(pieces[i]) # ""})]

\* The allele component of a row, when the row has one: current_allele is
\* truthy (NaN is) and AlleleCopyIdentifier is a digit string.
AlleleComponent(column_names, row) ==
    LET current_allele == RowGet(column_names, row, "Allele", None)
        current_allele_copy_id_str == RowGet(column_names, row, "AlleleCopyIdentifier", None)
    IN  IF Truthy(current_allele) /\ NotNa(current_allele_copy_id_str)
           /\ IsDigit(current_allele_copy_id_str)
        THEN <<[raw_allele_name |-> current_allele,
                allele_copy_id |-> DecimalValue(current_allele_copy_id_str)]>>
        ELSE <<>>

\* aldy_alleles_parsed after the row: a component is appended unless an equal
\* one is in the list (two NaN names are the same object and compare equal).
AppendAllele(aldy_alleles_parsed, component) ==
    IF component = <<>> \/ \E i \in 1..Len(aldy_alleles_parsed) :
                               aldy_alleles_parsed[i] = component[1]
    THEN aldy_alleles_parsed
    ELSE aldy_alleles_parsed \o component

\* "|".join(tool_flags) if tool_flags else None
ToolFlags(column_names, row) ==
    LET status == RowGet(column_names, row, "VariantStatus", None)
        func == RowGet(column_names, row, "VariantFunctionalityRaw", None)
        code == RowGet(column_names, row, "KarolinskaCode", None)
        tool_flags ==
            (IF NotNa(status) THEN <<status>> ELSE <<>>)
            \o (IF NotNa(func) THEN <<"FUNC:" \o func>> ELSE <<>>)
            \o (IF NotNa(code) THEN <<"CODE:" \o code>> ELSE <<>>)
    IN  IF tool_flags # <<>> THEN Join(tool_flags, "|") ELSE None

NoneIfNa(v) == IF NotNa(v) THEN v ELSE None

\* The variant of a row with a Location: exc is "AttributeError" when the
\* VariantType cell is NaN, which has no split method.
VariantOf(column_names, row) ==
    LET variant_type == RowGet(column_names, row, "VariantType", "")
        variant_type_parts == Split(variant_type, ">")
        coverage == RowGet(column_names, row, "Coverage", None)
    IN  IF variant_type = NaN THEN [exc |-> "AttributeError", variant |-> None]
        ELSE [exc |-> "",
              variant |->
                [rsid |-> NoneIfNa(RowGet(column_names, row, "dbSNP", None)),
                 location |-> NoneIfNa(RowGet(column_names, row, "Location", None)),
                 ref_allele |-> Strip(variant_type_parts[1]),
                 alt_allele |-> IF Len(variant_type_parts) > 1
                                THEN Strip(variant_type_parts[2]) ELSE None,
                 has_quality_score |-> NotNa(coverage) /\ IsDigit(coverage),
                 quality_score |-> IF NotNa(coverage) /\ IsDigit(coverage)
                                   THEN DecimalValue(coverage) ELSE 0,
                 allele_assignment |-> NoneIfNa(RowGet(column_names, row, "Allele", None)),
                 tool_specific_flags |-> ToolFlags(column_names, row)]]

HasLocation(column_names, row) ==
    LET location == RowGet(column_names, row, "Location", None)
    IN  NotNa(location) /\ location # ""

\* The loop over the rows of one group.
RECURSIVE RowLoop(_, _, _, _, _)
RowLoop(column_names, group_df, i, variants_reported, aldy_alleles_parsed) ==
    IF i > Len(group_df)
    THEN [exc |-> "", variants_reported |-> variants_reported,
          aldy_alleles_parsed |-> aldy_alleles_parsed]
    ELSE LET row == group_df[i]
             alleles == AppendAllele(aldy_alleles_parsed, AlleleComponent(column_names, row))
         IN  IF ~HasLocation(column_names, row)
             THEN RowLoop(column_names, group_df, i + 1, variants_reported, alleles)
             ELSE LET v == VariantOf(column_names, row)
                  IN  IF v.exc # ""
                      THEN [exc |-> v.exc, variants_reported |-> variants_reported,
                            aldy_alleles_parsed |-> alleles]
                      ELSE RowLoop(column_names, group_df, i + 1,
                                   Append(variants_reported, v.variant), alleles)

\* list.sort(key=allele_copy_id): stable, ascending.
RECURSIVE SortAlleles(_)
SortAlleles(alleles) ==
    IF Len(alleles) <= 1 THEN alleles
    ELSE LET least == CHOOSE i \in 1..Len(alleles) :
                 /\ \A j \in 1..Len(alleles) :
                        alleles[i].allele_copy_id <= alleles[j].allele_copy_id
                 /\ \A j \in 1..(i - 1) :
                        alleles[j].allele_copy_id # alleles[i].allele_copy_id
         IN  <<alleles[least]>>
             \o SortAlleles(SubSeq(alleles, 1, least - 1)
                            \o SubSeq(alleles, least + 1, Len(alleles)))

\* The call of one group from its first row, the copy number inferred from
\* that row and the outcome of the loop over its rows.
AssembleCall(column_names, group, filepath, first_row, first_location, estimated_cn, loop) ==
    IF estimated_cn.exc # "" THEN [exc |-> estimated_cn.exc, call |-> None]
    ELSE IF loop.exc # "" THEN [exc |-> loop.exc, call |-> None]
    ELSE [exc |-> "",
          call |->
            [sample_id |-> group.key[1],
             gene |-> group.key[2],
             tool_name |-> "ALDY",
             reference_genome |-> infer_reference_genome_from_location(
                 IF NotNa(first_location) THEN first_location ELSE ""),
             input_file |-> Basename(filepath),
             raw_tool_output |->
                [diplotype_string |-> RowGet(column_names, first_row, "Major", ""),
                 has_copy_number_raw |-> ~estimated_cn.is_none,
                 copy_number_raw |-> estimated_cn.value,
                 comments_raw |-> RowGet(column_names, first_row,
                                         "SolutionDescription", None),
                 variants_reported |-> loop.variants_reported,
                 aldy_solution_id |-> PyStr(group.key[3]),
                 aldy_alleles_in_solution_raw_string |->
                     RowGet(column_names, first_row, "Minor", ""),
                 aldy_alleles_parsed |-> SortAlleles(loop.aldy_alleles_parsed)]]]

\* The body of the loop over the groups: the call of one group, or the
\* exception its construction raises.  The copy number is inferred before
\* the rows are visited.
BuildCall(column_names, group, filepath) ==
    AssembleCall(column_names, group, filepath, group.group_df[1],
                 RowGet(column_names, group.group_df[1], "Location", None),
                 infer_copy_number_from_diplotype(
                     RowGet(column_names, group.group_df[1], "Major", "")),
                 RowLoop(column_names, group.group_df, 1, <<>>, <<>>))

\* The loop over the groups: it stops at the first group that raises.
RECURSIVE GroupsLoop(_, _, _, _, _)
GroupsLoop(column_names, groups, g, filepath, parsed_gene_calls) ==
    IF g > Len(groups) THEN [exc |-> "", calls |-> parsed_gene_calls]
    ELSE LET built == BuildCall(column_names, groups[g], filepath)
         IN  IF built.exc # "" THEN [exc |-> built.exc, calls |-> parsed_gene_calls]
             ELSE GroupsLoop(column_names, groups, g + 1, filepath,
                             Append(parsed_gene_calls, built.call))

-----------------------------------------------------------------------------
(* aldy_parser.py: parse *)

\* How the try block of parse ends: the exception raised or the list built,
\* with the locals column_names, data_lines and the rows of df as they were
\* at that point.
BodyOutcome(exc, calls, st, rows) ==
    [exc |-> exc, calls |-> calls, column_names |-> st.column_names,
     data_lines |-> st.data_lines, rows |-> rows]

\* Mutant of FromGroups: an exception in the loop over the groups ends the
\* loop and the calls built before it are returned.
FromGroups_KeepsBuilt(st, frame, loop) == BodyOutcome("", loop.calls, st, frame.rows)

FromGroups(st, frame, loop) == BodyOutcome(loop.exc, loop.calls, st, frame.rows)

\* The try block of parse after the lines are read: the two early returns,
\* the frame, the groups.
BuildFromFrame(st, frame, filepath) ==
    IF frame.exc # "" THEN BodyOutcome(frame.exc, <<>>, st, <<>>)
    ELSE IF ~HasColumn(st.column_names, "Sample") \/ ~HasColumn(st.column_names, "Gene")
    THEN BodyOutcome("KeyError", <<>>, st, frame.rows)
    ELSE FromGroups(st, frame,
                    GroupsLoop(st.column_names,
                               GroupedSolutions(st.column_names, frame.rows),
                               1, filepath, <<>>))

AfterScan(st, filepath, fillna_reaches_df) ==
    IF st.column_names = <<>> THEN BodyOutcome("", <<>>, st, <<>>)
    ELSE IF st.data_lines = <<>> THEN BodyOutcome("", <<>>, st, <<>>)
    ELSE BuildFromFrame(st, ReadFrame(st, fillna_reaches_df), filepath)

\* What the try block of parse computes for a file that exists: the
\* exception it raises, or the list it reaches the end with.
ParseBody(file, fillna_reaches_df) ==
    IF ~file.readable THEN BodyOutcome("OSError", <<>>, ScanStart, <<>>)
    ELSE AfterScan(ScanLines(file.lines, 1, ScanStart), file.path, fillna_reaches_df)

\* What parse does: kind "return" with the list returned, or kind "raise"
\* with the exception that leaves the call; caught names what an except
\* clause caught.
ParseOutcome(kind, exc, caught, calls, body) ==
    [kind |-> kind, exc |-> exc, caught |-> caught, calls |-> calls,
     column_names |-> body.column_names, data_lines |-> body.data_lines,
     rows |-> body.rows]

\* Only the first except clause: any other exception leaves the call.
ExceptOutcome_EmptyDataOnly(body) ==
    IF body.exc = "EmptyDataError" THEN ParseOutcome("return", "", body.exc, <<>>, body)
    ELSE IF body.exc # "" THEN ParseOutcome("raise", body.exc, "", <<>>, body)
    ELSE ParseOutcome("return", "", "", body.calls, body)

\* The except clauses of parse: EmptyDataError and every other Exception
\* end in "return []".
ExceptOutcome(body) ==
    IF body.exc = "EmptyDataError" THEN ParseOutcome("return", "", body.exc, <<>>, body)
    ELSE IF body.exc # "" THEN ParseOutcome("return", "", body.exc, <<>>, body)
    ELSE ParseOutcome("return", "", "", body.calls, body)

parse(file, fillna_reaches_df) ==
    IF ~file.exists
    THEN ParseOutcome("return", "", "", <<>>, BodyOutcome("", <<>>, ScanStart, <<>>))
    ELSE ExceptOutcome(ParseBody(file, fillna_reaches_df))

-----------------------------------------------------------------------------
(* Bounds and input domains *)

\* Longest candidate list handed to normalize.
MaxCalls == 2

\* Longest batch handed to group_gene_calls_by_sample_gene.
MaxBatch == 3

\* variants_reported lists of a candidate: none, a row without flags, unflagged,
\* flagged in one of two rows, and a None flag string before or after a flagged row.
VariantLists ==
    { <<>>,
      <<[rsid |-> "rs1135840"]>>,
      <<[tool_specific_flags |-> "NOVEL|FUNC:DISRUPTING"]>>,
      <<[tool_specific_flags |-> "EXTRA"], [tool_specific_flags |-> "NORMAL|FUNC:S486T|CODE:C1"]>>,
      <<[tool_specific_flags |-> None], [tool_specific_flags |-> "NORMAL"]>>,
      <<[tool_specific_flags |-> "NORMAL"], [tool_specific_flags |-> None]>> }

\* The (sample_id, gene) pairs of the candidates handed to normalize.
CandidateKeys == { <<"NA10860", "CYP2D6">>, <<"NA10861", "CYP2D6">>, <<"NA10860", "TPMT">> }

\* Candidates whose aldy_solution_id is missing or is not a decimal number.
UnnumberedCandidates ==
    { [sample_id |-> "NA10860", gene |-> "CYP2D6", tool_name |-> "ALDY",
       raw_tool_output |-> [variants_reported |-> <<>>]],
      [sample_id |-> "NA10860", gene |-> "CYP2D6", tool_name |-> "ALDY",
       raw_tool_output |-> [variants_reported |-> <<[tool_specific_flags |-> "NORMAL"]>>]],
      [sample_id |-> "NA10860", gene |-> "CYP2D6", tool_name |-> "ALDY",
       raw_tool_output |-> [aldy_solution_id |-> "n/a", variants_reported |-> <<>>]] }

Candidates ==
    { [sample_id |-> k[1], gene |-> k[2], tool_name |-> t,
       raw_tool_output |-> [aldy_solution_id |-> id, variants_reported |-> v]] :
      k \in CandidateKeys, t \in {"ALDY", "Stargazer"}, id \in {"1", "2"}, v \in VariantLists }
    \cup UnnumberedCandidates

\* A call of a batch: sample_id and gene each present, empty or missing.
BatchFieldValues == {"NA10860", "NA10861", ""}
BatchGeneValues == {"CYP2D6", "TPMT", ""}

\* Calls with a sample_id and a gene: one with every mandatory field, and one
\* each without tool_name, without reference_genome, with an empty
\* reference_genome and without raw_tool_output.diplotype_string.
SparseCalls ==
    { [sample_id |-> "NA10860", gene |-> "CYP2D6", tool_name |-> "ALDY",
       reference_genome |-> "GRCh37",
       raw_tool_output |-> [diplotype_string |-> "CYP2D6*1/*4"]],
      [sample_id |-> "NA10860", gene |-> "CYP2D6", reference_genome |-> "GRCh37",
       raw_tool_output |-> [diplotype_string |-> "CYP2D6*1/*4"]],
      [sample_id |-> "NA10860", gene |-> "CYP2D6", tool_name |-> "ALDY",
       raw_tool_output |-> [diplotype_string |-> "CYP2D6*1/*4"]],
      [sample_id |-> "NA10860", gene |-> "CYP2D6", tool_name |-> "ALDY",
       reference_genome |-> "",
       raw_tool_output |-> [diplotype_string |-> "CYP2D6*1/*4"]],
      [sample_id |-> "NA10860", gene |-> "CYP2D6", tool_name |-> "ALDY",
       reference_genome |-> "GRCh37",
       raw_tool_output |-> [aldy_solution_id |-> "1"]] }

BatchCalls ==
    { [sample_id |-> s, gene |-> g, tool_name |-> "ALDY"] :
        s \in BatchFieldValues, g \in BatchGeneValues }
    \cup { [gene |-> g, tool_name |-> "ALDY"] : g \in BatchGeneValues }
    \cup { [sample_id |-> s, tool_name |-> "ALDY"] : s \in BatchFieldValues }
    \cup { [tool_name |-> "ALDY"] }
    \cup SparseCalls

\* Most rows in a gene's haplotypes frame.
MaxRows == 2

\* Rows of the CYP2D6 haplotypes frame: a haplotype name (NaN: the cell is
\* missing) with either its REFERENCE row or a variant row.
HaplotypeNames == {"CYP2D6*1", "*4", "CYP2D6*4.001", NaN}

HaplotypeRows ==
    { [name |-> n, rsID |-> "REFERENCE", start |-> NaN] : n \in HaplotypeNames }
    \cup { [name |-> n, rsID |-> "rs3892097", start |-> "42524946"] : n \in HaplotypeNames }

RECURSIVE SeqsUpTo(_, _)
SeqsUpTo(S, n) ==
    IF n = 0 THEN {<<>>}
    ELSE LET shorter == SeqsUpTo(S, n - 1)
         IN  shorter \cup {Append(q, x) : q \in {r \in shorter : Len(r) = n - 1}, x \in S}

\* A persisted file written by hand to the documented shape: a legacy name
\* "*1A" kept as an alias in star form, and a primary entry under a
\* gene-prefixed key.
HandWrittenDefinitions ==
    ("*1" :> [raw_pharmvar_name |-> "CYP2D6*1", variant_details |-> <<>>,
              is_primary_definition |-> TRUE]
     @@ "CYP2D6*1" :> [maps_to |-> "*1"]
     @@ "*1A" :> [maps_to |-> "*1"]
     @@ "CYP2D6*2" :> [raw_pharmvar_name |-> "CYP2D6*2", variant_details |-> <<>>])

\* The CYP2D6 entry of the persisted file: what the loader makes of a frame,
\* or the hand-written one.
Cyp2d6Entries ==
    { load_and_process_gene_pharmvar("CYP2D6", rows) : rows \in SeqsUpTo(HaplotypeRows, MaxRows) }
    \cup { [definitions |-> HandWrittenDefinitions] }

\* The persisted files: CYP2D6 skipped by the loader or present, F5 skipped or
\* present with a frame without rows.
Databases ==
    { [genes |-> <<>>], [genes |-> [F5 |-> [definitions |-> <<>>]]] }
    \cup { [genes |-> [CYP2D6 |-> e]] : e \in Cyp2d6Entries }
    \cup { [genes |-> [CYP2D6 |-> e, F5 |-> [definitions |-> <<>>]]] : e \in Cyp2d6Entries }

\* The database the normalizer and grouping runs are made with.
ReferenceDatabase ==
    [genes |-> [CYP2D6 |-> [definitions |-> HandWrittenDefinitions]]]

\* What can be at the manager's path: nothing, a file that cannot be read, a
\* file that is not JSON, a JSON array, a JSON object without "genes", a
\* persisted file without genes and the reference one.
PersistedFiles ==
    { PersistedFile(FALSE, FALSE, FALSE, FALSE, <<>>),
      PersistedFile(TRUE, FALSE, FALSE, FALSE, <<>>),
      PersistedFile(TRUE, TRUE, FALSE, FALSE, <<>>),
      PersistedFile(TRUE, TRUE, TRUE, FALSE, <<>>),
      PersistedFile(TRUE, TRUE, TRUE, TRUE, <<>>) }
    \cup { PersistedFile(TRUE, TRUE, TRUE, TRUE, db) :
               db \in {[genes |-> <<>>], ReferenceDatabase} }

\* The arguments of the functionality and phenotype calls.
FunctionalityGenes == {"CYP2D6", "CYP2C9", "F5", "UGT2B7"}

FunctionalityAlleles ==
    {"*1", "*4", "*10", "*1x2", "*1X2", "*2xN", "*xN", "*99", "UNKNOWN", "rs6025", ""}

PhenotypeInputs ==
    DOMAIN PhenotypeMap \cup {"", "UNKNOWN", "normal function", "Normal Function (Inferred)"}

QueryGenes == {"CYP2D6", "F5", "TPMT", ""}

QueryAlleles ==
    {"", "*1", "CYP2D6*1", "CYP2D6*1A", "CYP2D6*2", " *4 ", "4", "CYP2D6*4", "*5",
     "rs6025", "CYP2D6*1X2", "UNKNOWN_ALLELE"}

\* The lines a file is written from.
MaxLines == 4

\* How many of the four query methods of the manager one run mixes.
MaxMethods == 2

AldyPath == "results/NA10860.aldy.tsv"

HeaderLine ==
    "#Sample\tGene\tSolutionID\tMajor\tMinor\tAlleleCopyIdentifier\tAllele\tLocation\tVariantType\tCoverage\tVariantFunctionalityRaw\tdbSNP\tKarolinskaCode\tVariantStatus"

SolutionLines == {"#Solution 1: *1.001, *4"}

\* Rows whose groups can be built: solution 1 without a variant (the row ends
\* in the empty cells of a row without one), with a variant, and with another
\* variant under a longer Major; and a row of solution 2 that ends after its
\* copy identifier, without an Allele.
SoundRows ==
    {"NA10860\tCYP2D6\t1\tCYP2D6*1/*4\t1.001;4\t0\t*1.001\t\t\t\t\t\t\t",
     "NA10860\tCYP2D6\t1\tCYP2D6*1/*4\t1.001;4\t1\t*4\t42522612\tC>G\t15\tS486T\trs1135840\tC1\tNORMAL",
     "NA10860\tCYP2D6\t1\tCYP2D6*1/*4+*4.021\t1.001;4;4.021\t2\t*4.021\t42525000\tA>T\t18\tDISRUPTING\trs1234567\tC2\tNOVEL",
     "NA10860\tCYP2D6\t2\tCYP2D6*4/*4\t4;4\t0"}

\* Rows with a cell missing: the Major of solution 3, the VariantType of a
\* row with a Location, the Gene.
DefectiveRows ==
    {"NA10860\tCYP2D6\t3\t\t4;4\t0\t*4",
     "NA10861\tCYP2D6\t1\tCYP2D6*1/*1\t1;1\t0\t*1\t42522612",
     "NA10860\t\t1\tCYP2D6*1/*1\t1;1\t0\t*1"}

\* An empty line, and a row of solution 4 commented out with a '#'.
OtherLines == {"", "#NA10860\tCYP2D6\t4\tCYP2D6*1/*1\t1;1\t0\t*1"}

AldyLines == {HeaderLine} \cup SolutionLines \cup SoundRows \cup DefectiveRows \cup OtherLines

-----------------------------------------------------------------------------
(* State machine *)

NormIdle ==
    [called |-> FALSE, kind |-> "", exc |-> "", best |-> 0,
     normal_solutions |-> <<>>, other_solutions |-> <<>>, input |-> <<>>]

GroupedIdle == [called |-> FALSE, input |-> <<>>, grouped_data |-> <<>>]

KbIdle == [called |-> FALSE, gene_name |-> "", raw_allele |-> "", value |-> "",
           tier |-> 0, lookups |-> <<>>]

NoManager ==
    [attempted |-> FALSE, constructed |-> FALSE, exc |-> "",
     pharmvar_db |-> <<>>, supported_genes |-> {}]

FunctionalityIdle == [called |-> FALSE, gene_name |-> "", normalized_allele |-> "", value |-> ""]

PhenotypeIdle == [called |-> FALSE, functionality |-> "", value |-> ""]

GeneInfoIdle == [called |-> FALSE, gene_name |-> "", found |-> FALSE, value |-> <<>>]

\* The class body of PharmVarManager: the two dicts as written there.
ClassMaps ==
    [allele_functionality_map |-> AlleleFunctionalityMap, phenotype_map |-> PhenotypeMap]

ParsedIdle ==
    [called |-> FALSE, kind |-> "", exc |-> "", caught |-> "", calls |-> <<>>,
     column_names |-> <<>>, data_lines |-> <<>>, rows |-> <<>>]

\* No file at the path.
NoFile == [exists |-> FALSE, readable |-> FALSE, path |-> AldyPath, lines |-> <<>>]

\* The state after construction: a manager that has loaded a persisted file,
\* a normalizer, a parser, no file at the parser's path and no call made yet.
Init ==
    /\ gene_calls = <<>>
    /\ norm = NormIdle
    /\ grouped = GroupedIdle
    /\ pharmvar_db \in Databases
    /\ kb = KbIdle
    /\ pharmvar_file = PersistedFile(TRUE, TRUE, TRUE, TRUE, pharmvar_db)
    /\ manager = PharmVarManagerInit(pharmvar_file)
    /\ functionality = FunctionalityIdle
    /\ phenotype = PhenotypeIdle
    /\ curated_maps = ClassMaps
    /\ gene_info = GeneInfoIdle
    /\ aldy_file = NoFile
    /\ parsed = ParsedIdle

InitReference == Init /\ pharmvar_db = ReferenceDatabase

\* The state before PharmVarManager is constructed: whatever is at its path,
\* no manager and so no pharmvar_db attribute.
InitStartup ==
    /\ gene_calls = <<>>
    /\ norm = NormIdle
    /\ grouped = GroupedIdle
    /\ pharmvar_file \in PersistedFiles
    /\ manager = NoManager
    /\ pharmvar_db = <<>>
    /\ kb = KbIdle
    /\ functionality = FunctionalityIdle
    /\ phenotype = PhenotypeIdle
    /\ curated_maps = ClassMaps
    /\ gene_info = GeneInfoIdle
    /\ aldy_file = NoFile
    /\ parsed = ParsedIdle

\* The caller appends one candidate to the list it will hand to normalize.
AddCandidate ==
    /\ ~norm.called /\ ~grouped.called
    /\ Len(gene_calls) < MaxCalls
    /\ \E c \in Candidates : gene_calls' = Append(gene_calls, c)
    /\ UNCHANGED <<norm, grouped, kbVars, parserVars>>

\* The caller appends one call to the batch it will hand to the grouping function.
AddBatchCall ==
    /\ ~norm.called /\ ~grouped.called
    /\ Len(gene_calls) < MaxBatch
    /\ \E c \in BatchCalls : gene_calls' = Append(gene_calls, c)
    /\ UNCHANGED <<norm, grouped, kbVars, parserVars>>

\* GeneCallNormalizer.normalize(gene_calls)
Normalize ==
    /\ ~norm.called
    /\ LET o == normalize(gene_calls)
       IN  /\ norm' = [called |-> TRUE, kind |-> o.kind, exc |-> o.exc, best |-> o.best,
                       normal_solutions |-> o.normal_solutions,
                       other_solutions |-> o.other_solutions, input |-> gene_calls]
           /\ gene_calls' = o.calls
    /\ UNCHANGED <<grouped, kbVars, parserVars>>

\* group_gene_calls_by_sample_gene(gene_calls)
GroupCalls ==
    /\ ~grouped.called
    /\ grouped' = [called |-> TRUE, input |-> gene_calls,
                   grouped_data |-> group_gene_calls_by_sample_gene(gene_calls)]
    /\ UNCHANGED <<gene_calls, norm, kbVars, parserVars>>

\* PharmVarManager.get_normalized_allele(gene_name, raw_allele)
GetNormalizedAllele ==
    /\ manager.constructed
    /\ \E gene_name \in QueryGenes, raw_allele \in QueryAlleles :
           LET r == get_normalized_allele(pharmvar_db, gene_name, raw_allele)
           IN  /\ kb' = [called |-> TRUE, gene_name |-> gene_name,
                          raw_allele |-> raw_allele,
                          value |-> r.value, tier |-> r.tier, lookups |-> r.lookups]
               /\ pharmvar_db' = DbAfterNormalizedAllele(pharmvar_db, gene_name, raw_allele)
    /\ UNCHANGED <<normVars, pharmvar_file, manager, functionality, phenotype,
                   curated_maps, gene_info, parserVars>>

\* PharmVarManager(processed_pharmvar_path): the constructor, which either
\* leaves a manager with its pharmvar_db or raises.
Construct ==
    /\ ~manager.attempted
    /\ manager' = PharmVarManagerInit(pharmvar_file)
    /\ pharmvar_db' = manager'.pharmvar_db
    /\ UNCHANGED <<normVars, kb, pharmvar_file, functionality, phenotype,
                   curated_maps, gene_info, parserVars>>

\* PharmVarManager.get_allele_functionality(gene_name, normalized_allele)
GetAlleleFunctionality ==
    /\ manager.constructed
    /\ \E gene_name \in FunctionalityGenes, normalized_allele \in FunctionalityAlleles :
           /\ functionality' =
               [called |-> TRUE, gene_name |-> gene_name,
                normalized_allele |-> normalized_allele,
                value |-> get_allele_functionality(gene_name, normalized_allele)]
           /\ curated_maps' = MapsAfterFunctionality(curated_maps, gene_name,
                                                     normalized_allele)
    /\ UNCHANGED <<normVars, pharmvar_db, kb, pharmvar_file, manager, phenotype,
                   gene_info, parserVars>>

\* PharmVarManager.get_standard_phenotype(functionality)
GetStandardPhenotype ==
    /\ manager.constructed
    /\ \E functionality_in \in PhenotypeInputs :
           /\ phenotype' = [called |-> TRUE, functionality |-> functionality_in,
                            value |-> get_standard_phenotype(functionality_in)]
           /\ curated_maps' = MapsAfterPhenotype(curated_maps, functionality_in)
    /\ UNCHANGED <<normVars, pharmvar_db, kb, pharmvar_file, manager, functionality,
                   gene_info, parserVars>>

\* PharmVarManager.get_gene_info(gene_name)
GetGeneInfo ==
    /\ manager.constructed
    /\ \E gene_name \in QueryGenes :
           /\ gene_info' = [called |-> TRUE, gene_name |-> gene_name,
                            found |-> get_gene_info(pharmvar_db, gene_name).found,
                            value |-> get_gene_info(pharmvar_db, gene_name).value]
           /\ pharmvar_db' = AfterGeneLookup(pharmvar_db, gene_name)
    /\ UNCHANGED <<normVars, kb, pharmvar_file, manager, functionality, phenotype,
                   curated_maps, parserVars>>

\* Something appears at the path: a file that open() can read, or one it
\* cannot (a directory, a file without read permission).
CreateFile ==
    /\ ~parsed.called
    /\ ~aldy_file.exists
    /\ \E readable \in BOOLEAN :
           aldy_file' = [aldy_file EXCEPT !.exists = TRUE, !.readable = readable]
    /\ UNCHANGED <<normVars, kbVars, parsed>>

\* One more line is written to the file.
WriteLine ==
    /\ ~parsed.called
    /\ aldy_file.exists /\ aldy_file.readable
    /\ Len(aldy_file.lines) < MaxLines
    /\ \E line \in AldyLines :
           aldy_file' = [aldy_file EXCEPT !.lines = Append(@, line)]
    /\ UNCHANGED <<normVars, kbVars, parsed>>

\* AldyParser.parse(filepath), under either behaviour of the chained fillna.
Parse ==
    /\ ~parsed.called
    /\ \E fillna_reaches_df \in BOOLEAN :
           \E o \in {parse(aldy_file, fillna_reaches_df)} :
               parsed' = [called |-> TRUE, kind |-> o.kind, exc |-> o.exc,
                          caught |-> o.caught, calls |-> o.calls,
                          column_names |-> o.column_names,
                          data_lines |-> o.data_lines, rows |-> o.rows]
    /\ UNCHANGED <<normVars, kbVars, aldy_file>>

NextNormalize == AddCandidate \/ Normalize
SpecNormalize == InitReference /\ [][NextNormalize]_vars

NextGrouping == AddBatchCall \/ GroupCalls
SpecGrouping == InitReference /\ [][NextGrouping]_vars

NextKB == GetNormalizedAllele
SpecKB == Init /\ [][NextKB]_vars

\* The constructor and the first call made on the manager it leaves.
NoCallYet == ~kb.called /\ ~functionality.called /\ ~phenotype.called

NextStartup ==
    \/ Construct
    \/ NoCallYet /\ GetNormalizedAllele
    \/ NoCallYet /\ GetAlleleFunctionality
    \/ NoCallYet /\ GetStandardPhenotype
SpecStartup == InitStartup /\ [][NextStartup]_vars

NextCurated == GetAlleleFunctionality \/ GetStandardPhenotype
SpecCurated == InitReference /\ [][NextCurated]_vars

\* The query methods already called in this run.
MethodsCalled ==
    {m \in {"get_normalized_allele", "get_allele_functionality",
            "get_standard_phenotype", "get_gene_info"} :
        \/ m = "get_normalized_allele" /\ kb.called
        \/ m = "get_allele_functionality" /\ functionality.called
        \/ m = "get_standard_phenotype" /\ phenotype.called
        \/ m = "get_gene_info" /\ gene_info.called}

\* A method may be called again, or for the first time while fewer than
\* MaxMethods different ones have been.
MayCall(m) == m \in MethodsCalled \/ Cardinality(MethodsCalled) < MaxMethods

\* Runs of calls on a constructed manager, in any order and any number.
QueryNormalizedAllele == MayCall("get_normalized_allele") /\ GetNormalizedAllele
QueryAlleleFunctionality == MayCall("get_allele_functionality") /\ GetAlleleFunctionality
QueryStandardPhenotype == MayCall("get_standard_phenotype") /\ GetStandardPhenotype
QueryGeneInfo == MayCall("get_gene_info") /\ GetGeneInfo

NextQueries ==
    \/ QueryNormalizedAllele \/ QueryAlleleFunctionality
    \/ QueryStandardPhenotype \/ QueryGeneInfo
SpecQueries == InitReference /\ [][NextQueries]_vars

NextParser == CreateFile \/ WriteLine \/ Parse
SpecParser == InitReference /\ [][NextParser]_vars

Next ==
    \/ AddCandidate \/ AddBatchCall \/ Normalize \/ GroupCalls \/ GetNormalizedAllele
    \/ GetAlleleFunctionality \/ GetStandardPhenotype \/ GetGeneInfo
    \/ CreateFile \/ WriteLine \/ Parse
Spec == Init /\ [][Next]_vars

-----------------------------------------------------------------------------
(* Vocabulary of the properties *)

InSeq(x, seq) == \E k \in 1..Len(seq) : seq[k] = x

FieldOf(call, key) == IF key \in DOMAIN call THEN call[key] ELSE None

\* Two candidates of the list differ in sample_id or in gene.
Mixed(calls) ==
    \E i, j \in 1..Len(calls) :
        <<FieldOf(calls[i], "sample_id"), FieldOf(calls[i], "gene")>>
            # <<FieldOf(calls[j], "sample_id"), FieldOf(calls[j], "gene")>>

VariantsOf(call) == call["raw_tool_output"]["variants_reported"]

NullFlagsAt(call, k) ==
    /\ "tool_specific_flags" \in DOMAIN VariantsOf(call)[k]
    /\ VariantsOf(call)[k]["tool_specific_flags"] = None

MarkedAt(call, k) ==
    /\ "tool_specific_flags" \in DOMAIN VariantsOf(call)[k]
    /\ VariantsOf(call)[k]["tool_specific_flags"] # None
    /\ Contains(VariantsOf(call)[k]["tool_specific_flags"], "NORMAL")

\* At least one reported variant has a flag string containing the NORMAL marker.
AnyVariantMarked(call) == \E k \in 1..Len(VariantsOf(call)) : MarkedAt(call, k)

\* A marked variant comes before every variant whose flag string is None.
MarkedBeforeNull(call) ==
    \E k \in 1..Len(VariantsOf(call)) :
        MarkedAt(call, k) /\ \A m \in 1..(k - 1) : ~NullFlagsAt(call, m)

\* A variant whose flag string is None comes before every marked variant.
NullBeforeMarked(call) ==
    \E k \in 1..Len(VariantsOf(call)) :
        NullFlagsAt(call, k) /\ \A m \in 1..(k - 1) : ~MarkedAt(call, m)

IsAldy(call) == FieldOf(call, "tool_name") = "ALDY"

\* The partitioning got as far as candidate i.
Reached(calls, i) ==
    \A j \in 1..(i - 1) : ~(IsAldy(calls[j]) /\ NullBeforeMarked(calls[j]))

IdOf(call) == DecimalValue(call["raw_tool_output"]["aldy_solution_id"])

\* The partition the selection rule prefers: the marked candidates when there
\* is one, all candidates otherwise.
Preferred(calls) ==
    IF \E i \in 1..Len(calls) : AnyVariantMarked(calls[i])
    THEN {i \in 1..Len(calls) : AnyVariantMarked(calls[i])}
    ELSE 1..Len(calls)

Selectable == norm.called /\ norm.input # <<>> /\ ~Mixed(norm.input)

-----------------------------------------------------------------------------
(* C1 *)

\* C1: for a non-empty list of candidates sharing one (sample_id, gene),
\* normalize returns a candidate of the preferred partition (the marked
\* candidates when there is one, all candidates otherwise) whose integer
\* aldy_solution_id is the smallest of that partition.
C1_ReturnsSmallestIdOfPreferredPartition ==
    Selectable =>
        /\ norm.kind = "call"
        /\ norm.best \in Preferred(norm.input)
        /\ \A j \in Preferred(norm.input) :
               IdOf(norm.input[norm.best]) <= IdOf(norm.input[j])

-----------------------------------------------------------------------------
(* C2 *)

-----------------------------------------------------------------------------
(* C8 *)

\* C8: normalize never raises: every call ends by returning a call or None.
C8_NormalizeNeverRaises == norm.called => norm.kind \in {"None", "call"}

-----------------------------------------------------------------------------
(* C9 *)

\* C9: for an empty list and for a list in which some candidate's sample_id or
\* gene differs from the first one's, normalize returns None, has put no
\* candidate in either partition, has selected nothing and has left the list
\* as it was.
C9_EmptyOrMixedReturnsNone ==
    (norm.called /\ (norm.input = <<>> \/ Mixed(norm.input))) =>
        /\ norm.kind = "None"
        /\ norm.normal_solutions = <<>> /\ norm.other_solutions = <<>>
        /\ norm.best = 0
        /\ gene_calls = norm.input

\* normalize was called on a list whose second candidate agrees with the
\* first in sample_id but not in gene.
C9_Witness ==
    /\ norm.called /\ Len(norm.input) = 2
    /\ FieldOf(norm.input[1], "sample_id") = FieldOf(norm.input[2], "sample_id")
    /\ FieldOf(norm.input[1], "gene") # FieldOf(norm.input[2], "gene")

-----------------------------------------------------------------------------
(* C10 *)

GroupKeys(grouped_data) ==
    UNION { { <<s, g>> : g \in DOMAIN grouped_data[s] } : s \in DOMAIN grouped_data }

MissingOrEmpty(call, key) == key \notin DOMAIN call \/ call[key] = ""

Dropped(call) == MissingOrEmpty(call, "sample_id") \/ MissingOrEmpty(call, "gene")

\* C10: a call whose sample_id or gene is missing or empty is in no group;
\* every other call of the input is in exactly one group, once, the group keyed
\* by its own sample_id and gene; and every group lists its calls in input order.
C10_GroupingDropsAndPlaces ==
    grouped.called =>
        LET gd == grouped.grouped_data
            holders(i) == {k \in GroupKeys(gd) : InSeq(i, gd[k[1]][k[2]])}
        IN  /\ \A i \in 1..Len(grouped.input) :
                   LET c == grouped.input[i]
                   IN  IF Dropped(c) THEN holders(i) = {}
                       ELSE /\ holders(i) = {<<c["sample_id"], c["gene"]>>}
                            /\ Cardinality({n \in 1..Len(gd[c["sample_id"]][c["gene"]]) :
                                               gd[c["sample_id"]][c["gene"]][n] = i}) = 1
            /\ \A k \in GroupKeys(gd) :
                   LET members == gd[k[1]][k[2]]
                   IN  /\ \A n \in 1..Len(members) : members[n] \in 1..Len(grouped.input)
                       /\ \A m, n \in 1..Len(members) : m < n => members[m] < members[n]

\* A batch with a dropped call between two calls that land in one group.
C10_Witness ==
    /\ grouped.called /\ Len(grouped.input) = 3
    /\ ~Dropped(grouped.input[1]) /\ Dropped(grouped.input[2])
    /\ GroupKeys(grouped.grouped_data) = {<<grouped.input[1]["sample_id"], grouped.input[1]["gene"]>>}
    /\ grouped.grouped_data[grouped.input[1]["sample_id"]][grouped.input[1]["gene"]] = <<1, 3>>

-----------------------------------------------------------------------------
(* Vocabulary of the knowledge-base properties *)

\* The gene's definition table in the loaded file; empty when the gene has none.
DefinitionsOf(gene_name) ==
    IF gene_name \in DOMAIN pharmvar_db["genes"]
       /\ "definitions" \in DOMAIN pharmvar_db["genes"][gene_name]
    THEN pharmvar_db["genes"][gene_name]["definitions"]
    ELSE <<>>

IsAlias(entry) == "maps_to" \in DOMAIN entry

\* The canonical form in the words of C5: the gene name and every '*'
\* removed, then '*' prefixed.
CanonicalForm(gene_name, allele) == "*" \o Replace(Replace(allele, gene_name), "*")

\* The key tier 2 looks up: the canonical form with the whitespace around the
\* bare allele trimmed.
TierTwoKey(gene_name, allele) == "*" \o Strip(Replace(Replace(allele, gene_name), "*"))

\* The value an entry stands for: its target for an alias, the canonical form
\* for a primary entry.
EntryValue(entry, canonical) == IF IsAlias(entry) THEN entry["maps_to"] ELSE canonical

ValidQuery == kb.called /\ kb.gene_name # "" /\ kb.raw_allele # ""

InCuratedMap(gene_name, allele) ==
    \E g \in DOMAIN AlleleFunctionalityMap :
        g = gene_name /\ allele \in DOMAIN AlleleFunctionalityMap[g]

-----------------------------------------------------------------------------
(* C5 *)

\* C5: for a gene with a definition table, a rawAllele that is a key of the
\* table gives its entry's value (the target of an alias, the canonical form
\* of rawAllele for a primary entry); otherwise, when the canonical form of
\* rawAllele is a key, it gives that entry's value.
C5_TiersOneAndTwoInOrder ==
    (ValidQuery /\ kb.gene_name \in DOMAIN pharmvar_db["genes"]) =>
        LET D == DefinitionsOf(kb.gene_name)
            canonical == CanonicalForm(kb.gene_name, kb.raw_allele)
        IN  /\ kb.raw_allele \in DOMAIN D
                   => kb.value = EntryValue(D[kb.raw_allele], canonical)
            /\ (kb.raw_allele \notin DOMAIN D /\ canonical \in DOMAIN D)
                   => kb.value = EntryValue(D[canonical], canonical)

\* A rawAllele that is no key itself and whose canonical form is the key of an
\* alias entry was resolved to the alias target, which differs from both.
C5_Witness ==
    /\ ValidQuery
    /\ LET D == DefinitionsOf(kb.gene_name)
           canonical == CanonicalForm(kb.gene_name, kb.raw_allele)
       IN  /\ kb.raw_allele \notin DOMAIN D
           /\ canonical \in DOMAIN D
           /\ IsAlias(D[canonical])
           /\ kb.value = D[canonical]["maps_to"]
           /\ kb.value # canonical

-----------------------------------------------------------------------------
(* C6 *)

\* C6: when neither rawAllele nor its canonical form is a key of the gene's
\* definition table (a gene without an entry in the loaded file has no keys)
\* and rawAllele is a key of the curated functionality map of the gene, the
\* call returns rawAllele unchanged.
C6_CuratedKeyReturnedUnchanged ==
    (/\ ValidQuery
     /\ kb.raw_allele \notin DOMAIN DefinitionsOf(kb.gene_name)
     /\ TierTwoKey(kb.gene_name, kb.raw_allele) \notin DOMAIN DefinitionsOf(kb.gene_name)
     /\ InCuratedMap(kb.gene_name, kb.raw_allele))
        => kb.value = kb.raw_allele

-----------------------------------------------------------------------------
(* C7 *)

-----------------------------------------------------------------------------
(* Vocabulary of the parser properties *)

\* The cell of a row of df in the column of that name.
CellOf(row, col) ==
    row.cells[CHOOSE i \in 1..Len(parsed.column_names) : parsed.column_names[i] = col]

TripleOf(row) == <<CellOf(row, "Sample"), CellOf(row, "Gene"), CellOf(row, "SolutionID")>>

\* The accepted data rows in which none of the three cells is missing.
CompleteRows ==
    {i \in 1..Len(parsed.rows) : \A k \in 1..3 : TripleOf(parsed.rows[i])[k] # NaN}

Triples == {TripleOf(parsed.rows[i]) : i \in CompleteRows}

RowsOf(triple) == {i \in CompleteRows : TripleOf(parsed.rows[i]) = triple}

FirstRowOf(triple) == CHOOSE i \in RowsOf(triple) : \A j \in RowsOf(triple) : i <= j

\* The call of the rows of this triple cannot be built: their first row has
\* no Major, or one of them has a Location and no VariantType.
GroupFails(triple) ==
    \/ CellOf(parsed.rows[FirstRowOf(triple)], "Major") = NaN
    \/ \E i \in RowsOf(triple) :
           /\ CellOf(parsed.rows[i], "Location") # NaN
           /\ CellOf(parsed.rows[i], "VariantType") = NaN

CallTriple(call) == <<call.sample_id, call.gene, call.raw_tool_output.aldy_solution_id>>

ReturnedTriples == {CallTriple(parsed.calls[i]) : i \in 1..Len(parsed.calls)}

NoTwoCallsShareATriple ==
    \A i, j \in 1..Len(parsed.calls) :
        i # j => CallTriple(parsed.calls[i]) # CallTriple(parsed.calls[j])

-----------------------------------------------------------------------------
(* C3 *)

\* C3 as stated: parse returns exactly one call for every distinct (Sample,
\* Gene, SolutionID) triple among the accepted data rows and no other call,
\* and no two returned calls share a triple.
C3_OneCallPerTriple ==
    parsed.called => (ReturnedTriples = Triples /\ NoTwoCallsShareATriple)

\* C3 amended: when the call of every group can be built, parse returns
\* exactly one call for every distinct triple of Sample, Gene and SolutionID
\* cells none of which is missing, and no other call, so that two solutions
\* of one sample and gene are two calls and no two calls share a triple; a
\* row with one of the three cells missing gives no call; when the call of
\* some group cannot be built, parse returns the empty list.
C3_OneCallPerTripleUnlessAGroupFails ==
    parsed.called =>
        IF \E t \in Triples : GroupFails(t)
        THEN parsed.calls = <<>>
        ELSE ReturnedTriples = Triples /\ NoTwoCallsShareATriple

\* A file with two solutions of one sample and gene was parsed into two
\* calls, one of them built from more than one row.
C3_Witness ==
    /\ parsed.called
    /\ Len(parsed.calls) = 2
    /\ Len(parsed.rows) = 3
    /\ parsed.calls[1].sample_id = parsed.calls[2].sample_id
    /\ parsed.calls[1].gene = parsed.calls[2].gene
    /\ parsed.calls[1].raw_tool_output.aldy_solution_id
           # parsed.calls[2].raw_tool_output.aldy_solution_id

-----------------------------------------------------------------------------
(* C4 *)

\* C4: every call of parse returns a list and raises nothing, whatever is at
\* the path; the list is empty when the file is missing, when it cannot be
\* read, when an except clause caught an exception and when the call of some
\* group cannot be built.
C4_ParseReturnsAListEmptyOnFailure ==
    parsed.called =>
        /\ parsed.kind = "return"
        /\ parsed.exc = ""
        /\ (\/ ~aldy_file.exists
            \/ ~aldy_file.readable
            \/ parsed.caught # ""
            \/ \E t \in Triples : GroupFails(t)) => parsed.calls = <<>>

\* A file with a group that can be built and a group that cannot was parsed:
\* the exception was caught and the empty list returned.
C4_Witness ==
    /\ parsed.called
    /\ parsed.kind = "return"
    /\ parsed.caught = "AttributeError"
    /\ \E t \in Triples : ~GroupFails(t)
    /\ \E t \in Triples : GroupFails(t)
    /\ parsed.calls = <<>>

-----------------------------------------------------------------------------
(* C11 *)

MandatoryFields == {"sample_id", "gene", "tool_name", "reference_genome"}

\* The call has no value for a mandatory top-level field, or no
\* raw_tool_output.diplotype_string.
Incomplete(call) ==
    \/ \E f \in MandatoryFields : MissingOrEmpty(call, f)
    \/ "raw_tool_output" \notin DOMAIN call
    \/ "diplotype_string" \notin DOMAIN call["raw_tool_output"]

InSomeGroup(i) ==
    \E k \in GroupKeys(grouped.grouped_data) :
        InSeq(i, grouped.grouped_data[k[1]][k[2]])

\* C11: a call that lacks one of sample_id, gene, tool_name and
\* reference_genome, or whose raw_tool_output has no diplotype_string, is in
\* no group of the grouping's result.
C11_IncompleteCallReachesNoGroup ==
    grouped.called =>
        \A i \in 1..Len(grouped.input) : Incomplete(grouped.input[i]) => ~InSomeGroup(i)

-----------------------------------------------------------------------------
(* C12 *)

\* C12: constructing the manager with no file at its path raises
\* FileNotFoundError and constructing it on a file that is not JSON raises
\* ValueError; in both cases no manager exists, and without a manager no
\* normalization, functionality or phenotype call is ever made.
C12_NoManagerWithoutPersistedFile ==
    /\ (manager.attempted /\ ~pharmvar_file.exists)
           => (~manager.constructed /\ manager.exc = "FileNotFoundError")
    /\ (manager.attempted /\ pharmvar_file.exists /\ pharmvar_file.readable
        /\ ~pharmvar_file.is_json)
           => (~manager.constructed /\ manager.exc = "ValueError")
    /\ ~manager.constructed
           => (~kb.called /\ ~functionality.called /\ ~phenotype.called)

\* The constructor ran with no file at the path and raised.
C12_Witness ==
    /\ manager.attempted /\ ~pharmvar_file.exists
    /\ manager.exc = "FileNotFoundError" /\ ~manager.constructed /\ ~kb.called

-----------------------------------------------------------------------------
(* C13 *)

\* The allele has the duplication marker, in either case.
HasDuplicationMarker(allele) == Contains(allele, "x") \/ Contains(allele, "X")

\* C13: for CYP2D6, an allele without an entry of its own in the curated map
\* gets the "*xN" entry when it contains the duplication marker in either
\* case, and the "UNKNOWN" entry when it does not.
C13_DuplicationFallsBackToXN ==
    (/\ functionality.called
     /\ functionality.gene_name = "CYP2D6"
     /\ functionality.normalized_allele \notin DOMAIN AlleleFunctionalityMap["CYP2D6"])
        => IF HasDuplicationMarker(functionality.normalized_allele)
           THEN functionality.value = AlleleFunctionalityMap["CYP2D6"]["*xN"]
           ELSE functionality.value = AlleleFunctionalityMap["CYP2D6"]["UNKNOWN"]

-----------------------------------------------------------------------------
(* C20 *)

\* C20: the phenotype of a functionality depends on nothing but the
\* functionality: "Normal Function" gives "NM", "No Function" "PM",
\* "Increased Function" "UM", "Decreased Function" "IM", and an input that is
\* no key of the table gives "Unknown".
C20_PhenotypeTable ==
    phenotype.called =>
        /\ phenotype.functionality = "Normal Function" => phenotype.value = "NM"
        /\ phenotype.functionality = "No Function" => phenotype.value = "PM"
        /\ phenotype.functionality = "Increased Function" => phenotype.value = "UM"
        /\ phenotype.functionality = "Decreased Function" => phenotype.value = "IM"
        /\ phenotype.functionality \notin DOMAIN PhenotypeMap => phenotype.value = "Unknown"

\* A functionality that differs from a key of the table in case only was
\* looked up.
C20_Witness ==
    /\ phenotype.called
    /\ phenotype.functionality = "normal function"
    /\ phenotype.value = "Unknown"

-----------------------------------------------------------------------------
(* C14 *)

\* C14: a value other than "UNKNOWN" that get_normalized_allele returned for
\* a gene is returned unchanged when it is normalized for that gene again.
C14_NormalizationIsIdempotent ==
    (kb.called /\ kb.value # "UNKNOWN")
        => get_normalized_allele(pharmvar_db, kb.gene_name, kb.value).value = kb.value

\* An alias was normalized to a different string, its primary definition.
C14_Witness ==
    /\ kb.called /\ kb.tier = 1
    /\ kb.value # "UNKNOWN" /\ kb.value # kb.raw_allele
    /\ kb.value \in DOMAIN DefinitionsOf(kb.gene_name)
    /\ get_normalized_allele(pharmvar_db, kb.gene_name, kb.value).value = kb.value

-----------------------------------------------------------------------------
(* C15 *)

AliasKeys(gene_name) ==
    {k \in DOMAIN DefinitionsOf(gene_name) : IsAlias(DefinitionsOf(gene_name)[k])}

\* C15: for every alias entry of every gene of the loaded file, normalizing
\* the alias and normalizing the key it maps to give the same value.
C15_AliasAndTargetAgree ==
    manager.constructed =>
        \A gene_name \in DOMAIN pharmvar_db["genes"] :
            \A k \in AliasKeys(gene_name) :
                get_normalized_allele(pharmvar_db, gene_name, k).value
                    = get_normalized_allele(pharmvar_db, gene_name,
                                            DefinitionsOf(gene_name)[k]["maps_to"]).value

\* An alias the loader made was normalized: the call returned the key it maps
\* to, which is what normalizing that key returns.
C15_Witness ==
    /\ kb.called
    /\ kb.raw_allele \in AliasKeys(kb.gene_name)
    /\ DefinitionsOf(kb.gene_name) # HandWrittenDefinitions
    /\ kb.value = DefinitionsOf(kb.gene_name)[kb.raw_allele]["maps_to"]
    /\ get_normalized_allele(pharmvar_db, kb.gene_name, kb.value).value = kb.value

-----------------------------------------------------------------------------
(* C16 *)

\* A value that is a non-empty string: not None, not a missing cell, not "".
NonEmptyValue(v) == v # None /\ v # NaN /\ v # ""

\* C16: every call parse returns has a non-empty sample_id, gene, tool_name
\* and reference_genome, and a raw_tool_output with a diplotype_string that
\* is not a missing value, whatever the lines of the file are.
C16_ReturnedCallsAreComplete ==
    parsed.called =>
        \A i \in 1..Len(parsed.calls) :
            /\ \A f \in MandatoryFields :
                   f \in DOMAIN parsed.calls[i] /\ NonEmptyValue(parsed.calls[i][f])
            /\ "raw_tool_output" \in DOMAIN parsed.calls[i]
            /\ "diplotype_string" \in DOMAIN parsed.calls[i].raw_tool_output
            /\ parsed.calls[i].raw_tool_output.diplotype_string # NaN
            /\ parsed.calls[i].raw_tool_output.diplotype_string # None

\* A file with a row that has no Gene and a row that has everything was
\* parsed: a call was returned, and it is not one of the row without a Gene.
C16_Witness ==
    /\ parsed.called
    /\ Len(parsed.calls) >= 1
    /\ \E i \in 1..Len(parsed.rows) : CellOf(parsed.rows[i], "Gene") = NaN
    /\ \A i \in 1..Len(parsed.calls) : parsed.calls[i].gene = "CYP2D6"

-----------------------------------------------------------------------------
(* C17 *)

\* The lines of the file that begin, once stripped, with '#Sample'.
HeaderLinesOf(lines) == {i \in 1..Len(lines) : StartsWith(Strip(lines[i]), "#Sample")}

\* The lines the loop accepts as data rows: after a header line, not empty
\* once stripped, and neither a header nor a '#Solution ' line.
DataLinesOf(lines) ==
    {i \in 1..Len(lines) :
        /\ \E h \in HeaderLinesOf(lines) : h < i
        /\ Strip(lines[i]) # ""
        /\ ~StartsWith(Strip(lines[i]), "#Sample")
        /\ ~StartsWith(Strip(lines[i]), "#Solution ")}

\* C17: parse returns the empty list when there is no file at the path, when
\* no line of the file begins with '#Sample', and when a header line occurs
\* and no data row is accepted after it.
C17_EmptyListWithoutFileHeaderOrRows ==
    (/\ parsed.called
     /\ \/ ~aldy_file.exists
        \/ HeaderLinesOf(aldy_file.lines) = {}
        \/ DataLinesOf(aldy_file.lines) = {})
        => (parsed.kind = "return" /\ parsed.calls = <<>>)

\* A file of rows that could be built into calls, without a header line, was
\* parsed into the empty list.
C17_Witness ==
    /\ parsed.called
    /\ aldy_file.exists /\ aldy_file.readable
    /\ HeaderLinesOf(aldy_file.lines) = {}
    /\ \E i \in 1..Len(aldy_file.lines) : aldy_file.lines[i] \in SoundRows
    /\ parsed.kind = "return" /\ parsed.calls = <<>>

\* A file with a header line and a '#Solution ' line and no row after them
\* was parsed into the empty list.
C17_WitnessHeaderOnly ==
    /\ parsed.called
    /\ HeaderLinesOf(aldy_file.lines) # {}
    /\ \E i \in 1..Len(aldy_file.lines) : aldy_file.lines[i] \in SolutionLines
    /\ DataLinesOf(aldy_file.lines) = {}
    /\ parsed.column_names # <<>> /\ parsed.data_lines = <<>>
    /\ parsed.kind = "return" /\ parsed.calls = <<>>

\* There was no file at the path and parse returned the empty list.
C17_WitnessNoFile ==
    parsed.called /\ ~aldy_file.exists /\ parsed.kind = "return" /\ parsed.calls = <<>>

-----------------------------------------------------------------------------
(* C18 *)

\* The candidate has an aldy_solution_id that int() accepts.
HasIntegerId(call) ==
    /\ "aldy_solution_id" \in DOMAIN call["raw_tool_output"]
    /\ call["raw_tool_output"]["aldy_solution_id"] # None
    /\ IsDigit(call["raw_tool_output"]["aldy_solution_id"])

\* The partitioning ran to its end.
Partitioned ==
    \A i \in 1..Len(norm.input) : ~(IsAldy(norm.input[i]) /\ NullBeforeMarked(norm.input[i]))

\* The candidates of the list normalize sorts: the flagged partition when it
\* is not empty, the other partition otherwise.
SortedPartition ==
    IF norm.normal_solutions # <<>>
    THEN {norm.normal_solutions[k] : k \in 1..Len(norm.normal_solutions)}
    ELSE {norm.other_solutions[k] : k \in 1..Len(norm.other_solutions)}

\* C18: when the partition normalize sorts holds a candidate whose
\* aldy_solution_id is missing or is not an integer, the selection does not
\* fail, and the candidate returned has an integer id whenever a candidate of
\* that partition has one.
C18_UnnumberedCandidateSortsLast ==
    (/\ Selectable /\ Partitioned
     /\ \E i \in SortedPartition : ~HasIntegerId(norm.input[i]))
        => /\ norm.kind = "call"
           /\ (\E j \in SortedPartition : HasIntegerId(norm.input[j]))
                  => HasIntegerId(norm.input[norm.best])

-----------------------------------------------------------------------------
(* C19 *)

\* The call at position i of the caller's list carries both enrichment fields.
Enriched(i) ==
    /\ "normalized_functional_status" \in DOMAIN gene_calls[i]
    /\ "predicted_phenotype" \in DOMAIN gene_calls[i]

-----------------------------------------------------------------------------
(* C21 *)

\* C21: after construction, whatever calls of get_normalized_allele,
\* get_allele_functionality, get_standard_phenotype and get_gene_info have
\* been made, pharmvar_db is the database the constructor loaded, the
\* functionality map and the phenotype map are as the class defines them,
\* and each call made earlier returns now what it returned then.
C21_KnowledgeBaseIsReadOnly ==
    manager.constructed =>
        /\ pharmvar_db = manager.pharmvar_db
        /\ curated_maps = ClassMaps
        /\ kb.called =>
               get_normalized_allele(pharmvar_db, kb.gene_name, kb.raw_allele).value
                   = kb.value
        /\ functionality.called =>
               get_allele_functionality(functionality.gene_name,
                                        functionality.normalized_allele)
                   = functionality.value
        /\ phenotype.called =>
               get_standard_phenotype(phenotype.functionality) = phenotype.value
        /\ gene_info.called =>
               /\ get_gene_info(pharmvar_db, gene_info.gene_name).found = gene_info.found
               /\ get_gene_info(pharmvar_db, gene_info.gene_name).value = gene_info.value

\* A gene the database does not have was looked up with get_gene_info and an
\* allele the functionality map does not have with get_allele_functionality:
\* neither lookup left an entry behind.
C21_Witness ==
    /\ manager.constructed
    /\ gene_info.called /\ ~gene_info.found /\ gene_info.gene_name = "TPMT"
    /\ functionality.called
    /\ functionality.gene_name = "CYP2D6" /\ functionality.normalized_allele = "*99"
    /\ "TPMT" \notin DOMAIN pharmvar_db["genes"]
    /\ "*99" \notin DOMAIN curated_maps.allele_functionality_map["CYP2D6"]

-----------------------------------------------------------------------------
(* C22 *)

\* The lines that are neither empty nor a header nor a '#Solution ' line and
\* have no header line before them.
EarlyLinesOf(lines) ==
    {i \in 1..Len(lines) :
        /\ \A h \in HeaderLinesOf(lines) : i < h
        /\ Strip(lines[i]) # ""
        /\ ~StartsWith(Strip(lines[i]), "#Sample")
        /\ ~StartsWith(Strip(lines[i]), "#Solution ")}

\* The k-th smallest element of a set of line numbers.
Nth(S, k) == CHOOSE i \in S : Cardinality({j \in S : j <= i}) = k

\* The first three fields of a line of the file.
LineTriple(line) ==
    LET parts == Split(Strip(line), "\t")
    IN  IF Len(parts) >= 3 THEN <<parts[1], parts[2], parts[3]>> ELSE <<>>

\* C22: the data rows parse collects are exactly the lines that follow a
\* header line, in file order; a line met before the first header is not
\* collected, also when a header comes later, and every returned call has
\* the Sample, Gene and SolutionID of a line that follows a header.
C22_RowsBeforeTheHeaderAreSkipped ==
    (parsed.called /\ aldy_file.exists /\ aldy_file.readable) =>
        /\ Len(parsed.data_lines) = Cardinality(DataLinesOf(aldy_file.lines))
        /\ \A k \in 1..Len(parsed.data_lines) :
               parsed.data_lines[k]
                   = Strip(aldy_file.lines[Nth(DataLinesOf(aldy_file.lines), k)])
        /\ \A c \in 1..Len(parsed.calls) :
               \E i \in DataLinesOf(aldy_file.lines) :
                   LineTriple(aldy_file.lines[i]) = CallTriple(parsed.calls[c])

\* A row of solution 2 came before the header and a row of solution 1 after
\* it: the one call returned is that of solution 1.
C22_Witness ==
    /\ parsed.called
    /\ \E i \in EarlyLinesOf(aldy_file.lines) :
           /\ aldy_file.lines[i] \in SoundRows
           /\ LineTriple(aldy_file.lines[i])[3] = "2"
    /\ HeaderLinesOf(aldy_file.lines) # {}
    /\ Len(parsed.calls) = 1
    /\ parsed.calls[1].raw_tool_output.aldy_solution_id = "1"

-----------------------------------------------------------------------------
(* C23 *)

\* The '#Solution <n>: <text>' lines of the file.
SolutionLinesOf(lines) ==
    {i \in 1..Len(lines) :
        /\ StartsWith(Strip(lines[i]), "#Solution ")
        /\ SolutionMatch(Strip(lines[i])).matched}

\* The SolutionID field of a line, "" when it has fewer than three fields.
SolutionIdOfLine(line) == IF LineTriple(line) = <<>> THEN "" ELSE LineTriple(line)[3]

\* The texts of the '#Solution' lines whose next accepted data row carries
\* this identifier.
TextsBefore(lines, id) ==
    {SolutionMatch(Strip(lines[s])).text : s \in
        {t \in SolutionLinesOf(lines) :
            \E i \in DataLinesOf(lines) :
                /\ t < i
                /\ \A j \in DataLinesOf(lines) : t < j => i <= j
                /\ SolutionIdOfLine(lines[i]) = id}}

\* C23: the text of a '#Solution <n>: <text>' line is the comments_raw of
\* the call whose identifier is the SolutionID of the next accepted data
\* row, whatever <n> is, and a call whose identifier follows no such line
\* has the comments_raw "No Description Found".
C23_DescriptionFollowsTheNextRow ==
    parsed.called =>
        \A c \in 1..Len(parsed.calls) :
            LET id == parsed.calls[c].raw_tool_output.aldy_solution_id
                texts == TextsBefore(aldy_file.lines, id)
            IN  IF texts # {}
                THEN parsed.calls[c].raw_tool_output.comments_raw \in texts
                ELSE parsed.calls[c].raw_tool_output.comments_raw = "No Description Found"

\* The same statement for the files in which every '#Solution' line has the
\* ordinal of the row that follows it, and for the builds in which the
\* fallback text reaches the frame.
C23_HoldsWhenOrdinalsAgree ==
    (/\ parsed.called
     /\ \A t \in SolutionLinesOf(aldy_file.lines) :
            \A i \in DataLinesOf(aldy_file.lines) :
                (t < i /\ \A j \in DataLinesOf(aldy_file.lines) : t < j => i <= j)
                    => SolutionIdOfLine(aldy_file.lines[i])
                           = SolutionMatch(Strip(aldy_file.lines[t])).id)
        => \A c \in 1..Len(parsed.calls) :
               LET id == parsed.calls[c].raw_tool_output.aldy_solution_id
                   texts == TextsBefore(aldy_file.lines, id)
                   shown == parsed.calls[c].raw_tool_output.comments_raw
               IN  IF texts # {} THEN shown \in texts
                   ELSE shown \in {"No Description Found", NaN}

-----------------------------------------------------------------------------
(* C24 *)

\* The rows of a triple that have a Location, by their position in the file.
VariantRowsOf(triple) ==
    {i \in RowsOf(triple) : CellOf(parsed.rows[i], "Location") # NaN}

\* C24: the diplotype_string of every returned call is the Major cell of the
\* first row of its group in file order, and its variants_reported are those
\* of the group's rows with a Location, in file order.
C24_RowsKeepFileOrder ==
    parsed.called =>
        \A c \in 1..Len(parsed.calls) :
            LET t == CallTriple(parsed.calls[c])
                raw == parsed.calls[c].raw_tool_output
            IN  /\ raw.diplotype_string = CellOf(parsed.rows[FirstRowOf(t)], "Major")
                /\ Len(raw.variants_reported) = Cardinality(VariantRowsOf(t))
                /\ \A k \in 1..Len(raw.variants_reported) :
                       LET row == parsed.rows[Nth(VariantRowsOf(t), k)]
                       IN  /\ raw.variants_reported[k].location = CellOf(row, "Location")
                           /\ raw.variants_reported[k].allele_assignment
                                  = CellOf(row, "Allele")

\* The row of solution 1 with the longer Major and the higher Location came
\* first in the file: the call has that Major, and its variant comes before
\* the variant of the row that followed.
C24_Witness ==
    /\ parsed.called
    /\ Len(parsed.calls) = 1
    /\ Len(parsed.rows) >= 2
    /\ CellOf(parsed.rows[1], "Major") # CellOf(parsed.rows[2], "Major")
    /\ parsed.calls[1].raw_tool_output.diplotype_string = "CYP2D6*1/*4+*4.021"
    /\ Len(parsed.calls[1].raw_tool_output.variants_reported) = 2
    /\ parsed.calls[1].raw_tool_output.variants_reported[1].location = "42525000"
    /\ parsed.calls[1].raw_tool_output.variants_reported[2].location = "42522612"

-----------------------------------------------------------------------------
(* C25 *)

\* The rows of a triple with a numeric AlleleCopyIdentifier.
NumberedRowsOf(triple) ==
    {i \in RowsOf(triple) :
        /\ CellOf(parsed.rows[i], "AlleleCopyIdentifier") # NaN
        /\ IsDigit(CellOf(parsed.rows[i], "AlleleCopyIdentifier"))}

\* The (allele label, copy id) pairs of the rows of a triple that carry an
\* allele label and a numeric copy identifier.
LabelledPairsOf(triple) ==
    {<<CellOf(parsed.rows[i], "Allele"),
       DecimalValue(CellOf(parsed.rows[i], "AlleleCopyIdentifier"))>> :
        i \in {j \in NumberedRowsOf(triple) : CellOf(parsed.rows[j], "Allele") # NaN}}

ComponentPairs(alleles) ==
    {<<alleles[k].raw_allele_name, alleles[k].allele_copy_id>> : k \in 1..Len(alleles)}

\* C25: the aldy_alleles_parsed of every returned call has one entry for each
\* distinct (allele label, copy id) pair of the group's rows that carry both,
\* no entry for a row without an allele label, no two equal entries, and
\* ascending copy ids.
C25_OneComponentPerLabelledCopy ==
    parsed.called =>
        \A c \in 1..Len(parsed.calls) :
            LET alleles == parsed.calls[c].raw_tool_output.aldy_alleles_parsed
            IN  /\ ComponentPairs(alleles) = LabelledPairsOf(CallTriple(parsed.calls[c]))
                /\ Len(alleles) = Cardinality(ComponentPairs(alleles))
                /\ \A k \in 1..(Len(alleles) - 1) :
                       alleles[k].allele_copy_id <= alleles[k + 1].allele_copy_id

\* The same statement for the calls whose rows all carry an allele label.
C25_HoldsWhenEveryRowIsLabelled ==
    parsed.called =>
        \A c \in 1..Len(parsed.calls) :
            LET alleles == parsed.calls[c].raw_tool_output.aldy_alleles_parsed
                t == CallTriple(parsed.calls[c])
            IN  (\A i \in RowsOf(t) : CellOf(parsed.rows[i], "Allele") # NaN)
                    => /\ ComponentPairs(alleles) = LabelledPairsOf(t)
                       /\ Len(alleles) = Cardinality(ComponentPairs(alleles))
                       /\ \A k \in 1..(Len(alleles) - 1) :
                              alleles[k].allele_copy_id <= alleles[k + 1].allele_copy_id

\* The three rows of solution 1 were read with copy identifier 2 first: the
\* call has three entries with the copy ids 0, 1 and 2 in that order.
C25_ReferenceExample ==
    /\ parsed.called
    /\ Len(parsed.calls) = 1
    /\ Len(parsed.rows) = 3
    /\ CellOf(parsed.rows[1], "AlleleCopyIdentifier") = "2"
    /\ Len(parsed.calls[1].raw_tool_output.aldy_alleles_parsed) = 3
    /\ \A k \in 1..3 :
           parsed.calls[1].raw_tool_output.aldy_alleles_parsed[k].allele_copy_id = k - 1

-----------------------------------------------------------------------------
(* C26 *)

\* C26: no line that begins with '#' is among the data rows parse collects,
\* and no returned call is built from such a line.
C26_NoCommentLineIsARow ==
    parsed.called =>
        /\ \A k \in 1..Len(parsed.data_lines) : ~StartsWith(parsed.data_lines[k], "#")
        /\ \A c \in 1..Len(parsed.calls) : ~StartsWith(parsed.calls[c].sample_id, "#")

\* The same statement for header lines and '#Solution ' lines alone.
C26_HeaderAndSolutionLinesAreNoRows ==
    parsed.called =>
        \A k \in 1..Len(parsed.data_lines) :
            /\ ~StartsWith(parsed.data_lines[k], "#Sample")
            /\ ~StartsWith(parsed.data_lines[k], "#Solution ")

-----------------------------------------------------------------------------
(* C27 *)

\* The returned calls built from the group of this row.
CallsOfRow(i) ==
    {c \in 1..Len(parsed.calls) : CallTriple(parsed.calls[c]) = TripleOf(parsed.rows[i])}

\* C27 as stated: when the call of some group cannot be built parse returns
\* the empty list, and when it returns calls every accepted data row belongs
\* to the group of exactly one of them.
C27_AllOrNothing ==
    parsed.called =>
        /\ (\E t \in Triples : GroupFails(t)) => parsed.calls = <<>>
        /\ parsed.calls # <<>> =>
               \A i \in 1..Len(parsed.rows) : Cardinality(CallsOfRow(i)) = 1

\* C27 amended: when the call of some group cannot be built parse returns
\* the empty list and never the calls of the groups that could be; when it
\* returns calls, every accepted data row whose Sample, Gene and SolutionID
\* cells are all present belongs to the group of exactly one returned call,
\* and a row with one of the three missing belongs to none.
C27_AllOrNothingForKeyedRows ==
    parsed.called =>
        /\ (\E t \in Triples : GroupFails(t)) => parsed.calls = <<>>
        /\ parsed.calls # <<>> =>
               \A i \in 1..Len(parsed.rows) :
                   Cardinality(CallsOfRow(i)) = IF i \in CompleteRows THEN 1 ELSE 0

\* The group of solution 1 was built and the group of solution 3, which
\* comes after it, has no Major: the empty list was returned.
C27_Witness ==
    /\ parsed.called
    /\ \E t \in Triples : t[3] = "1" /\ ~GroupFails(t)
    /\ \E t \in Triples : t[3] = "3" /\ GroupFails(t)
    /\ \A t \in Triples : t[3] \in {"1", "3"}
    /\ parsed.calls = <<>>

\* Calls were returned for a file with a row that has no Gene.
C27_WitnessUnkeyedRow ==
    /\ parsed.called
    /\ parsed.calls # <<>>
    /\ \E i \in 1..Len(parsed.rows) : i \notin CompleteRows

-----------------------------------------------------------------------------
(* C28 *)

C28_NothingChangesWithoutASelection ==
    (norm.called /\ norm.kind # "call") => gene_calls = norm.input

====
